---- MODULE Spec2Model ----
(***************************************************************************)
(* Model of librz/analysis/arch/sh/sh_il.c: the SuperH-4 lifter to RzIL    *)
(* (status-word codec, flag synthesizers, operand resolver, instruction    *)
(* generators) and the register binding / register sync code that follows  *)
(* it in the same file.                                                    *)
(*                                                                         *)
(* Bitvectors are sequences of bits, least significant bit first, so that  *)
(* 32-bit and 64-bit arithmetic stays exact.  A 32-bit input is written as *)
(* a pair <<hi, lo>> of 16-bit halves.                                     *)
(***************************************************************************)
EXTENDS Integers, Sequences, FiniteSets, TLC

VARIABLES vm, reg, inp, out, step

vars == <<vm, reg, inp, out, step>>

(***************************************************************************)
(* Bounds of the model.                                                    *)
(***************************************************************************)
\* how far the sampled 32-bit inputs spread around 0, 2^31 and 2^32
Spread == 1
\* the interrupt masks of the sampled status words are 0..MaskMax
MaskMax == 15
\* the registers of the sampled profiles lie at offsets 0..MaxOff and are
\* 1..MaxSize bits wide
MaxOff == 2
MaxSize == 3

(***************************************************************************)
(* Program constants.                                                      *)
(***************************************************************************)
SH_REG_SIZE == 32
SH_ADDR_SIZE == 32
\* r0..r15 are the general purpose registers; r0..r7 are banked
SH_GPR_COUNT == 16
SH_BANKED_REG_COUNT == 8
BITS_PER_BYTE == 8
\* indices of the control registers, which follow the general purpose ones
SH_REG_IND_R0 == 0
SH_REG_IND_PC == 16
SH_REG_IND_SR == 17
SH_REG_IND_GBR == 18
SH_REG_IND_SSR == 19
SH_REG_IND_SPC == 20
SH_REG_IND_SGR == 21
SH_REG_IND_DBR == 22
SH_REG_IND_VBR == 23
SH_REG_IND_MACH == 24
SH_REG_IND_MACL == 25
SH_REG_IND_PR == 26

SH_SR_T == "sr_t"
SH_SR_S == "sr_s"
SH_SR_I == "sr_i"
SH_SR_Q == "sr_q"
SH_SR_M == "sr_m"
SH_SR_F == "sr_f"
SH_SR_B == "sr_b"
SH_SR_R == "sr_r"
SH_SR_D == "sr_d"

(***************************************************************************)
(* Bitvectors (RzBitVector): sequences over {0,1}, index 1 is bit 0.       *)
(***************************************************************************)
\* a function over 1..w as a sequence value, its elements computed once
Bits(f) == f \o <<>>

RECURSIVE Pow2(_)
Pow2(n) == IF n = 0 THEN 1 ELSE 2 * Pow2(n - 1)

RECURSIVE BvOfNat(_, _)
\* rz_bv_new_from_ut64 for a value below 2^31: the low w bits of n
BvOfNat(w, n) == IF w = 0 THEN <<>> ELSE <<n % 2>> \o BvOfNat(w - 1, n \div 2)

\* the 32-bit vector hi * 2^16 + lo
BvOfHalves(h) == BvOfNat(16, h[2]) \o BvOfNat(16, h[1])

\* rz_bv_new_zero
BvZero(w) == Bits([i \in 1..w |-> 0])

RECURSIVE BvToNatFrom(_, _)
BvToNatFrom(x, i) == IF i > Len(x) THEN 0 ELSE x[i] + 2 * BvToNatFrom(x, i + 1)

\* the number a vector of at most 31 bits stands for
BvToNat(x) == BvToNatFrom(x, 1)

\* the two 16-bit halves <<hi, lo>> of a 32-bit vector
BvHalves(x) == <<BvToNat(SubSeq(x, 17, 32)), BvToNat(SubSeq(x, 1, 16))>>

BvMsb(x) == x[Len(x)]
BvLsb(x) == x[1]
BvIsZero(x) == \A i \in 1..Len(x) : x[i] = 0

BvAnd(x, y) == Bits([i \in 1..Len(x) |-> x[i] * y[i]])
BvOr(x, y) == Bits([i \in 1..Len(x) |-> IF x[i] + y[i] > 0 THEN 1 ELSE 0])
BvXor(x, y) == Bits([i \in 1..Len(x) |-> (x[i] + y[i]) % 2])
BvNot(x) == Bits([i \in 1..Len(x) |-> 1 - x[i]])

RECURSIVE BvAddFrom(_, _, _, _)
BvAddFrom(x, y, i, c) ==
    IF i > Len(x) THEN <<>>
    ELSE <<(x[i] + y[i] + c) % 2>> \o BvAddFrom(x, y, i + 1, (x[i] + y[i] + c) \div 2)

\* rz_bv_add, rz_bv_sub: modulo 2^width
BvAdd(x, y) == BvAddFrom(x, y, 1, 0)
BvSub(x, y) == BvAddFrom(x, BvNot(y), 1, 1)

\* a shift distance: the vector's value, capped at 64 (every width here is <= 64)
ShiftDist(s) == IF \E i \in 1..Len(s) : i > 7 /\ s[i] = 1 THEN 64
                ELSE BvToNat(SubSeq(s, 1, IF Len(s) < 7 THEN Len(s) ELSE 7))

\* rz_bv_lshift_fill / rz_bv_rshift_fill
BvShl(x, n, fill) == Bits([i \in 1..Len(x) |-> IF i - n >= 1 THEN x[i - n] ELSE fill])
BvShr(x, n, fill) == Bits([i \in 1..Len(x) |-> IF i + n <= Len(x) THEN x[i + n] ELSE fill])

RECURSIVE BvUltFrom(_, _, _)
BvUltFrom(x, y, i) ==
    IF i = 0 THEN FALSE
    ELSE IF x[i] # y[i] THEN x[i] < y[i]
    ELSE BvUltFrom(x, y, i - 1)

\* rz_bv_ule / rz_bv_sle and the comparisons derived from them
BvUlt(x, y) == BvUltFrom(x, y, Len(x))
BvSlt(x, y) == IF BvMsb(x) # BvMsb(y) THEN BvMsb(x) = 1 ELSE BvUlt(x, y)

\* the cast of x to w bits, new high bits filled with fill
BvCast(w, fill, x) == Bits([i \in 1..w |-> IF i <= Len(x) THEN x[i] ELSE fill])

RECURSIVE BvMulFrom(_, _, _)
BvMulFrom(x, y, i) ==
    IF i > Len(y) THEN BvZero(Len(x))
    ELSE LET rest == BvMulFrom(x, y, i + 1)
         IN  IF y[i] = 1 THEN BvAdd(BvShl(x, i - 1, 0), rest) ELSE rest

\* limb i (from 0) of a vector of whole bytes, as a number
BvLimb(x, i) == BvToNat(SubSeq(x, BITS_PER_BYTE * i + 1, BITS_PER_BYTE * i + BITS_PER_BYTE))

RECURSIVE BvMulColumn(_, _, _, _)
\* the sum of the products of the limbs i..k of x with the limbs k-i..0 of y
BvMulColumn(x, y, k, i) ==
    IF i > k THEN 0 ELSE BvLimb(x, i) * BvLimb(y, k - i) + BvMulColumn(x, y, k, i + 1)

RECURSIVE BvMulLimbs(_, _, _, _)
\* the limbs k.. of the product, carry coming from the limbs below
BvMulLimbs(x, y, k, carry) ==
    IF BITS_PER_BYTE * k >= Len(x) THEN <<>>
    ELSE BvOfNat(BITS_PER_BYTE, (BvMulColumn(x, y, k, 0) + carry) % Pow2(BITS_PER_BYTE))
         \o BvMulLimbs(x, y, k + 1, (BvMulColumn(x, y, k, 0) + carry) \div Pow2(BITS_PER_BYTE))

\* rz_bv_mul: modulo 2^width; byte by byte when the width is a number of bytes
BvMul(x, y) ==
    IF Len(x) % BITS_PER_BYTE = 0 THEN BvMulLimbs(x, y, 0, 0) ELSE BvMulFrom(x, y, 1)

\* rz_bv_copy_nbits(src, 0, dst, 0, n): the low n bits of src over those of dst
rz_bv_copy_nbits(src, dst, n) ==
    Bits([i \in 1..Len(dst) |-> IF i <= n THEN src[i] ELSE dst[i]])

RZ_MIN(a, b) == IF a < b THEN a ELSE b

(***************************************************************************)
(* RzIL values and nodes.  A value is [t, b]: t is "bv" (b the bits),      *)
(* "bool" (b = <<0>> or <<1>>) or "err" (the evaluation failed).  A node   *)
(* is a tuple whose first element names the operation; <<"NULL">> is the   *)
(* null pointer.                                                           *)
(***************************************************************************)
Bv(b) == [t |-> "bv", b |-> b]
Bool(x) == [t |-> "bool", b |-> <<IF x THEN 1 ELSE 0>>]
Err == [t |-> "err", b |-> <<>>]
IsBv(v) == v.t = "bv"
IsBool(v) == v.t = "bool"
Truth(v) == v.b[1] = 1

NULL == <<"NULL">>
IsNull(e) == e[1] = "NULL"

\* rz_il_opbuilder_begin.h: the constructors return NULL when an operand is NULL
Op1(k, x) == IF IsNull(x) THEN NULL ELSE <<k, x>>
Op2(k, x, y) == IF IsNull(x) \/ IsNull(y) THEN NULL ELSE <<k, x, y>>
Op3(k, x, y, z) == IF IsNull(x) \/ IsNull(y) \/ IsNull(z) THEN NULL ELSE <<k, x, y, z>>

UN(l, val) == <<"BV", BvOfNat(l, val)>>
\* a 32-bit constant too large for one number: hi * 2^16 + lo
UN32(hi, lo) == <<"BV", BvOfHalves(<<hi, lo>>)>>
IL_FALSE == <<"B", 0>>
IL_TRUE == <<"B", 1>>
VARG(name) == IF name = "" THEN NULL ELSE <<"VARG", name>>
VARL(name) == <<"VARL", name>>
DUP(x) == Op1("DUP", x)
ITE(c, x, y) == Op3("ITE", c, x, y)
LOGAND(x, y) == Op2("LOGAND", x, y)
LOGOR(x, y) == Op2("LOGOR", x, y)
LOGXOR(x, y) == Op2("LOGXOR", x, y)
LOGNOT(x) == Op1("LOGNOT", x)
ADD(x, y) == Op2("ADD", x, y)
SUB(x, y) == Op2("SUB", x, y)
MUL(x, y) == Op2("MUL", x, y)
SHIFTL0(x, y) == Op2("SHIFTL0", x, y)
SHIFTR0(x, y) == Op2("SHIFTR0", x, y)
AND(x, y) == Op2("AND", x, y)
OR(x, y) == Op2("OR", x, y)
XOR(x, y) == Op2("XOR", x, y)
INV(x) == Op1("INV", x)
MSB(x) == Op1("MSB", x)
LSB(x) == Op1("LSB", x)
IS_ZERO(x) == Op1("IS_ZERO", x)
NON_ZERO(x) == INV(IS_ZERO(x))
EQ(x, y) == Op2("EQ", x, y)
ULT(x, y) == Op2("ULT", x, y)
UGT(x, y) == Op2("UGT", x, y)
UGE(x, y) == Op2("UGE", x, y)
SGT(x, y) == Op2("SGT", x, y)
SGE(x, y) == Op2("SGE", x, y)
UNSIGNED(n, x) == IF IsNull(x) THEN NULL ELSE <<"UNSIGNED", n, x>>
SIGNED(n, x) == IF IsNull(x) THEN NULL ELSE <<"SIGNED", n, x>>

SETG(name, x) == IF name = "" \/ IsNull(x) THEN NULL ELSE <<"SETG", name, x>>
SETL(name, x) == IF IsNull(x) THEN NULL ELSE <<"SETL", name, x>>
JMP(x) == Op1("JMP", x)
NOP == <<"NOP">>
EMPTY == <<"EMPTY">>
\* rz_il_op_new_branch: a condition and at least one arm
BRANCH(c, x, y) ==
    IF IsNull(c) \/ (IsNull(x) /\ IsNull(y)) THEN NULL
    ELSE <<"BRANCH", c, IF IsNull(x) THEN NOP ELSE x, IF IsNull(y) THEN NOP ELSE y>>
\* rz_il_op_new_seq wants both effects; rz_il_op_new_seqn chains what it is given
SEQ2(x, y) == Op2("SEQ", x, y)
SEQ3(x, y, z) == <<"SEQ", x, <<"SEQ", y, z>>>>
SEQ4(x, y, z, u) == <<"SEQ", x, <<"SEQ", y, <<"SEQ", z, u>>>>>>

SH_U_ADDR(x) == UN(SH_ADDR_SIZE, x)
SH_U_REG(x) == UN(SH_REG_SIZE, x)
SH_BIT(x) == UN(1, x)
SH_TRUE == SH_U_REG(1)
SH_FALSE == SH_U_REG(0)

\* a signed constant given by a value that is not negative
SN(l, val) == UN(l, val)
SH_S_REG(x) == SN(SH_REG_SIZE, x)
U8(x) == UN(8, x)
LOADW(n, addr) == IF IsNull(addr) THEN NULL ELSE <<"LOADW", n, addr>>
STOREW(addr, val) == Op2("STOREW", addr, val)

(***************************************************************************)
(* The evaluator of pure nodes (rz_il_evaluate_pure): typed, an operand of *)
(* the wrong sort or width makes the evaluation fail.  st is the VM: st.g  *)
(* the global variables, st.l the local ones.                              *)
(***************************************************************************)
BvBin(k, x, y) ==
    CASE k = "LOGAND" -> Bv(BvAnd(x, y))
      [] k = "LOGOR" -> Bv(BvOr(x, y))
      [] k = "LOGXOR" -> Bv(BvXor(x, y))
      [] k = "ADD" -> Bv(BvAdd(x, y))
      [] k = "SUB" -> Bv(BvSub(x, y))
      [] k = "MUL" -> Bv(BvMul(x, y))
      [] k = "EQ" -> Bool(x = y)
      [] k = "ULT" -> Bool(BvUlt(x, y))
      [] k = "UGT" -> Bool(BvUlt(y, x))
      [] k = "UGE" -> Bool(~BvUlt(x, y))
      [] k = "SGT" -> Bool(BvSlt(y, x))
      [] k = "SGE" -> Bool(~BvSlt(x, y))

BoolBin(k, x, y) ==
    CASE k = "AND" -> Bool(x /\ y)
      [] k = "OR" -> Bool(x \/ y)
      [] k = "XOR" -> Bool(x # y)

BvBinOps == {"LOGAND", "LOGOR", "LOGXOR", "ADD", "SUB", "MUL", "EQ", "ULT", "UGT", "UGE", "SGT", "SGE"}
BoolBinOps == {"AND", "OR", "XOR"}

(***************************************************************************)
(* The memory of the VM (RzILMem 0): st.mem is the list of the bytes       *)
(* written, the newest last, each <<address, byte>>; a byte never written  *)
(* reads as zero.  st.big_endian is the byte order of the words.           *)
(***************************************************************************)
RECURSIVE MemByteFrom(_, _, _)
MemByteFrom(mem, a, i) ==
    IF i = 0 THEN BvZero(BITS_PER_BYTE)
    ELSE IF mem[i][1] = a THEN mem[i][2]
    ELSE MemByteFrom(mem, a, i - 1)

MemByte(mem, a) == MemByteFrom(mem, a, Len(mem))

\* the address of the byte that holds bits 8i..8i+7 of a word of k bytes at a
MemByteAddr(a, k, i, big_endian) ==
    BvAdd(a, BvOfNat(Len(a), IF big_endian THEN k - 1 - i ELSE i))

RECURSIVE MemLoadFrom(_, _, _, _)
\* rz_il_vm_mem_loadw: the bytes i..k-1 of the word of k bytes at a, low first
MemLoadFrom(st, a, k, i) ==
    IF i >= k THEN <<>>
    ELSE MemByte(st.mem, MemByteAddr(a, k, i, st.big_endian)) \o MemLoadFrom(st, a, k, i + 1)

MemLoad(st, a, n) == MemLoadFrom(st, a, n \div BITS_PER_BYTE, 0)

RECURSIVE MemStoreFrom(_, _, _, _, _)
\* rz_il_vm_mem_storew: the bytes of v written one by one
MemStoreFrom(mem, a, v, i, big_endian) ==
    IF i >= Len(v) \div BITS_PER_BYTE THEN mem
    ELSE MemStoreFrom(
            Append(mem, <<MemByteAddr(a, Len(v) \div BITS_PER_BYTE, i, big_endian),
                          SubSeq(v, BITS_PER_BYTE * i + 1, BITS_PER_BYTE * i + BITS_PER_BYTE)>>),
            a, v, i + 1, big_endian)

MemStore(st, a, v) ==
    IF IsBv(a) /\ IsBv(v) /\ Len(a.b) = SH_ADDR_SIZE
    THEN [st EXCEPT !.mem = MemStoreFrom(st.mem, a.b, v.b, 0, st.big_endian)]
    ELSE [st EXCEPT !.ok = FALSE]

\* a VM with a memory
WithMem(v, mem, big_endian) ==
    [g |-> v.g, l |-> v.l, pc |-> v.pc, ok |-> v.ok, events |-> v.events,
     reg_binding |-> v.reg_binding, bound |-> v.bound, mem |-> mem, big_endian |-> big_endian]

RECURSIVE EvalPure(_, _)
EvalPure(e, st) ==
    LET k == e[1] IN
    CASE k = "NULL" -> Err
      [] k = "BV" -> Bv(e[2])
      [] k = "B" -> Bool(e[2] = 1)
      [] k = "VARG" -> IF e[2] \in DOMAIN st.g THEN st.g[e[2]] ELSE Err
      [] k = "VARL" -> IF e[2] \in DOMAIN st.l THEN st.l[e[2]] ELSE Err
      [] k = "DUP" -> EvalPure(e[2], st)
      [] k = "ITE" ->
            LET c == EvalPure(e[2], st) IN
            IF ~IsBool(c) THEN Err
            ELSE IF Truth(c) THEN EvalPure(e[3], st) ELSE EvalPure(e[4], st)
      [] k \in BvBinOps ->
            LET x == EvalPure(e[2], st)
                y == EvalPure(e[3], st)
            IN  IF IsBv(x) /\ IsBv(y) /\ Len(x.b) = Len(y.b) THEN BvBin(k, x.b, y.b) ELSE Err
      [] k \in {"SHIFTL0", "SHIFTR0"} ->
            LET x == EvalPure(e[2], st)
                y == EvalPure(e[3], st)
            IN  IF ~(IsBv(x) /\ IsBv(y)) THEN Err
                ELSE IF k = "SHIFTL0" THEN Bv(BvShl(x.b, ShiftDist(y.b), 0))
                ELSE Bv(BvShr(x.b, ShiftDist(y.b), 0))
      [] k \in BoolBinOps ->
            LET x == EvalPure(e[2], st)
                y == EvalPure(e[3], st)
            IN  IF IsBool(x) /\ IsBool(y) THEN BoolBin(k, Truth(x), Truth(y)) ELSE Err
      [] k = "INV" ->
            LET x == EvalPure(e[2], st) IN IF IsBool(x) THEN Bool(~Truth(x)) ELSE Err
      [] k = "LOGNOT" ->
            LET x == EvalPure(e[2], st) IN IF IsBv(x) THEN Bv(BvNot(x.b)) ELSE Err
      [] k = "MSB" ->
            LET x == EvalPure(e[2], st) IN IF IsBv(x) THEN Bool(BvMsb(x.b) = 1) ELSE Err
      [] k = "LSB" ->
            LET x == EvalPure(e[2], st) IN IF IsBv(x) THEN Bool(BvLsb(x.b) = 1) ELSE Err
      [] k = "IS_ZERO" ->
            LET x == EvalPure(e[2], st) IN IF IsBv(x) THEN Bool(BvIsZero(x.b)) ELSE Err
      [] k = "UNSIGNED" ->
            LET x == EvalPure(e[3], st) IN IF IsBv(x) THEN Bv(BvCast(e[2], 0, x.b)) ELSE Err
      [] k = "SIGNED" ->
            LET x == EvalPure(e[3], st) IN IF IsBv(x) THEN Bv(BvCast(e[2], BvMsb(x.b), x.b)) ELSE Err
      [] k = "LOADW" ->
            LET x == EvalPure(e[3], st) IN
            IF IsBv(x) /\ Len(x.b) = SH_ADDR_SIZE THEN Bv(MemLoad(st, x.b, e[2])) ELSE Err

(***************************************************************************)
(* The evaluator of effects (rz_il_evaluate_effect).  A failed step stops  *)
(* the effect: st.ok turns FALSE and what ran before it stays done.        *)
(***************************************************************************)
Failed(st) == [st EXCEPT !.ok = FALSE]

\* a global variable keeps its sort and width
SetGlobal(st, name, v) ==
    IF name \in DOMAIN st.g /\ v.t = st.g[name].t /\ Len(v.b) = Len(st.g[name].b)
    THEN [st EXCEPT !.g[name] = v]
    ELSE Failed(st)
SetLocal(st, name, v) ==
    IF name \in DOMAIN st.l /\ v.t # "err" THEN [st EXCEPT !.l[name] = v] ELSE Failed(st)
Jump(st, v) ==
    IF IsBv(v) /\ Len(v.b) = Len(st.pc) THEN [st EXCEPT !.pc = v.b] ELSE Failed(st)
\* the arm of a branch that the value c of its condition selects
BranchArm(e, c) == IF ~IsBool(c) THEN NULL ELSE IF Truth(c) THEN e[3] ELSE e[4]

RECURSIVE ExecEffect(_, _)
ExecEffect(e, st) ==
    LET k == e[1] IN
    IF ~st.ok THEN st
    ELSE CASE k = "NULL" -> Failed(st)
      [] k \in {"NOP", "EMPTY"} -> st
      [] k = "SETG" -> SetGlobal(st, e[2], EvalPure(e[3], st))
      [] k = "SETL" -> SetLocal(st, e[2], EvalPure(e[3], st))
      [] k = "SEQ" -> ExecEffect(e[3], ExecEffect(e[2], st))
      [] k = "BRANCH" -> ExecEffect(BranchArm(e, EvalPure(e[2], st)), st)
      [] k = "JMP" -> Jump(st, EvalPure(e[2], st))
      [] k = "STOREW" -> MemStore(st, EvalPure(e[2], st), EvalPure(e[3], st))

(***************************************************************************)
(* sh_il.c: utilities.                                                     *)
(***************************************************************************)
sh_valid_gpr(r) == r < SH_GPR_COUNT
sh_banked_reg(r) == r < SH_BANKED_REG_COUNT

\* regs.h: the register names by index
sh_registers ==
    <<"r0", "r1", "r2", "r3", "r4", "r5", "r6", "r7",
      "r8", "r9", "r10", "r11", "r12", "r13", "r14", "r15",
      "pc", "sr", "gbr", "ssr", "spc", "sgr", "dbr", "vbr", "mach", "macl", "pr">>

sh_global_registers ==
    <<"r0", "r1", "r2", "r3", "r4", "r5", "r6", "r7",
      "r0b", "r1b", "r2b", "r3b", "r4b", "r5b", "r6b", "r7b",
      "r8", "r9", "r10", "r11", "r12", "r13", "r14", "r15", "sr",
      SH_SR_T, SH_SR_S, SH_SR_I, SH_SR_I, SH_SR_Q, SH_SR_M, SH_SR_F, SH_SR_B, SH_SR_R, SH_SR_D,
      "gbr", "ssr", "spc", "sgr", "dbr", "vbr", "mach", "macl", "pr">>

\* "" stands for the NULL name
sh_get_banked_reg(r, bank) ==
    IF ~sh_banked_reg(r) \/ bank > 1 THEN ""
    ELSE sh_global_registers[r + bank * SH_BANKED_REG_COUNT + 1]

sh_il_get_status_reg_bit(bit) == ITE(VARG(bit), SH_TRUE, SH_FALSE)

\* the flags from the top of the word down, each with the distance the word
\* is shifted left after the flag has been put into its bit 0
sh_status_pack ==
    <<<<SH_SR_D, 1>>, <<SH_SR_R, 1>>, <<SH_SR_B, 13>>, <<SH_SR_F, 6>>, <<SH_SR_M, 1>>,
      <<SH_SR_Q, 4>>, <<SH_SR_I, 3>>, <<SH_SR_S, 1>>, <<SH_SR_T, 0>>>>

RECURSIVE sh_il_get_status_reg_from(_, _)
sh_il_get_status_reg_from(i, val) ==
    IF i > Len(sh_status_pack) THEN val
    ELSE sh_il_get_status_reg_from(i + 1,
            IF sh_status_pack[i][2] = 0
            THEN LOGOR(UNSIGNED(SH_REG_SIZE, sh_il_get_status_reg_bit(sh_status_pack[i][1])), val)
            ELSE SHIFTL0(LOGOR(UNSIGNED(SH_REG_SIZE, sh_il_get_status_reg_bit(sh_status_pack[i][1])), val),
                         SH_U_REG(sh_status_pack[i][2])))

sh_il_get_status_reg == sh_il_get_status_reg_from(1, SH_U_REG(0))

\* the flags from bit 0 up, each with the distance the word is shifted right
\* before the flag is taken and the mask that takes it
sh_status_unpack ==
    <<<<SH_SR_T, 0, 1>>, <<SH_SR_S, 1, 1>>, <<SH_SR_I, 3, 15>>, <<SH_SR_Q, 4, 1>>, <<SH_SR_M, 1, 1>>,
      <<SH_SR_F, 6, 1>>, <<SH_SR_B, 13, 1>>, <<SH_SR_R, 1, 1>>, <<SH_SR_D, 1, 1>>>>

\* the flag is set when the masked word is not zero
sh_status_set(i, val) == SETG(sh_status_unpack[i][1], NON_ZERO(LOGAND(SH_U_REG(sh_status_unpack[i][3]), val)))
sh_status_seq(i, eff, set) == IF i = 1 THEN set ELSE SEQ2(eff, set)

RECURSIVE sh_il_set_status_reg_from(_, _, _)
\* val is the word shifted for flag i: the flag is set from it and the rest follows
sh_il_set_status_reg_at(i, val, eff) ==
    sh_il_set_status_reg_from(i + 1, val, sh_status_seq(i, eff, sh_status_set(i, val)))
sh_il_set_status_reg_from(i, val, eff) ==
    IF i > Len(sh_status_unpack) THEN eff
    ELSE sh_il_set_status_reg_at(i,
            IF sh_status_unpack[i][2] = 0 THEN val
            ELSE SHIFTR0(DUP(val), SH_U_REG(sh_status_unpack[i][2])),
            eff)

sh_il_set_status_reg(val) == sh_il_set_status_reg_from(1, val, NULL)

sh_il_get_reg(r) ==
    IF ~sh_valid_gpr(r) THEN NULL
    ELSE IF ~sh_banked_reg(r)
         THEN IF r = SH_REG_IND_SR THEN sh_il_get_status_reg ELSE VARG(sh_registers[r + 1])
         ELSE ITE(AND(VARG(SH_SR_D), VARG(SH_SR_R)),
                  VARG(sh_get_banked_reg(r, 1)), VARG(sh_get_banked_reg(r, 0)))

\* the same with bank 0 written whatever SR.MD and SR.RB are, for the mutant
sh_il_set_reg_Bank0(r, val) ==
    IF ~sh_valid_gpr(r) THEN NULL
    ELSE IF ~sh_banked_reg(r)
         THEN IF r = SH_REG_IND_SR THEN sh_il_set_status_reg(val) ELSE SETG(sh_registers[r + 1], val)
         ELSE SETG(sh_get_banked_reg(r, 0), val)

sh_il_set_reg(r, val) ==
    IF ~sh_valid_gpr(r) THEN NULL
    ELSE IF ~sh_banked_reg(r)
         THEN IF r = SH_REG_IND_SR THEN sh_il_set_status_reg(val) ELSE SETG(sh_registers[r + 1], val)
         ELSE BRANCH(AND(VARG(SH_SR_D), VARG(SH_SR_R)),
                     SETG(sh_get_banked_reg(r, 1), val), SETG(sh_get_banked_reg(r, 0), DUP(val)))

(***************************************************************************)
(* sh_il.c: the arithmetic flag synthesizers.                              *)
(***************************************************************************)
sh_il_is_add_carry_NoInv(res, x, y) ==
    LET xmsb == MSB(x)
        ymsb == MSB(y)
        resmsb == MSB(res)
        xy == AND(xmsb, ymsb)
        ry == AND(resmsb, DUP(ymsb))
        xr == AND(DUP(xmsb), resmsb)
    IN  OR(OR(xy, ry), xr)

sh_il_is_add_carry(res, x, y) ==
    LET xmsb == MSB(x)
        ymsb == MSB(y)
        resmsb == MSB(res)
        xy == AND(xmsb, ymsb)
        nres == INV(resmsb)
        ry == AND(nres, DUP(ymsb))
        xr == AND(DUP(xmsb), nres)
    IN  OR(OR(xy, ry), xr)

sh_il_is_sub_borrow(res, x, y) ==
    LET xmsb == MSB(x)
        ymsb == MSB(y)
        resmsb == MSB(res)
        nx == INV(xmsb)
        nxy == AND(nx, ymsb)
        rny == AND(DUP(ymsb), resmsb)
        rnx == AND(DUP(resmsb), nx)
    IN  OR(OR(nxy, rny), rnx)

sh_il_is_add_overflow_OneTerm(res, x, y) ==
    LET xmsb == MSB(x)
        ymsb == MSB(y)
        resmsb == MSB(res)
    IN  AND(AND(INV(resmsb), xmsb), ymsb)

sh_il_is_add_overflow(res, x, y) ==
    LET xmsb == MSB(x)
        ymsb == MSB(y)
        resmsb == MSB(res)
        nrxy == AND(AND(INV(resmsb), xmsb), ymsb)
        rnxny == AND(AND(DUP(resmsb), INV(DUP(xmsb))), INV(DUP(ymsb)))
    IN  OR(nrxy, rnxny)

sh_il_is_sub_underflow(res, x, y) ==
    LET xmsb == MSB(x)
        ymsb == MSB(y)
        resmsb == MSB(res)
        nrxny == AND(AND(INV(resmsb), xmsb), INV(ymsb))
        rnxy == AND(AND(DUP(resmsb), INV(DUP(xmsb))), DUP(ymsb))
    IN  OR(nrxny, rnxy)

(***************************************************************************)
(* The VM of the SuperH lifter: its global variables are the registers of  *)
(* sh_global_registers, the status bits being booleans.                    *)
(***************************************************************************)
FlagNames == {SH_SR_T, SH_SR_S, SH_SR_I, SH_SR_Q, SH_SR_M, SH_SR_F, SH_SR_B, SH_SR_R, SH_SR_D}
GlobalNames == {sh_global_registers[i] : i \in 1..Len(sh_global_registers)} \ {"sr"}
LocalNames == {"old_q", "tmp0", "tmp1", "mac", "res_wide"}

VM0 == [g |-> [n \in GlobalNames |-> IF n \in FlagNames THEN Bool(FALSE) ELSE Bv(BvZero(SH_REG_SIZE))],
        l |-> [n \in LocalNames |-> Err],
        pc |-> BvZero(SH_ADDR_SIZE),
        ok |-> TRUE,
        events |-> <<>>,
        reg_binding |-> <<>>,
        bound |-> FALSE]

Reg0 == [items |-> <<>>, pc |-> "", arena |-> <<>>]
NoOut == [fn |-> "none"]

(***************************************************************************)
(* 32-bit inputs as halves <<hi, lo>>, and exact arithmetic on them.       *)
(***************************************************************************)
Vals32 ==
    {<<0, k>> : k \in 0..Spread}
    \cup {<<32767, 65535 - k>> : k \in 0..Spread}
    \cup {<<32768, k>> : k \in 0..Spread}
    \cup {<<65535, 65535 - k>> : k \in 0..Spread}
    \cup {<<16384, 0>>, <<49152, 0>>}

Const32(h) == <<"BV", BvOfHalves(h)>>

\* (x + y) mod 2^32 and (x - y) mod 2^32
AddHalves(x, y) ==
    LET lo == x[2] + y[2]
        hi == x[1] + y[1] + (lo \div 65536)
    IN  <<hi % 65536, lo % 65536>>
SubHalves(x, y) ==
    LET lo == x[2] - y[2] + 65536
        hi == x[1] - y[1] + 65536 - (IF lo < 65536 THEN 1 ELSE 0)
    IN  <<hi % 65536, lo % 65536>>
\* x + y > 2^32 - 1, and x < y, as unsigned numbers
SumCarries(x, y) == x[1] + y[1] + ((x[2] + y[2]) \div 65536) >= 65536
HalvesLt(x, y) == x[1] < y[1] \/ (x[1] = y[1] /\ x[2] < y[2])
\* the high half read as a signed number
SignedHi(x) == IF x[1] >= 32768 THEN x[1] - 65536 ELSE x[1]
\* the signed sum and the signed difference lie outside [-2^31, 2^31 - 1]
SignedSumOut(x, y) ==
    LET h == SignedHi(x) + SignedHi(y) + ((x[2] + y[2]) \div 65536)
    IN  h < -32768 \/ h > 32767
SignedDiffOut(x, y) ==
    LET h == SignedHi(x) - SignedHi(y) - (IF x[2] < y[2] THEN 1 ELSE 0)
    IN  h < -32768 \/ h > 32767

(***************************************************************************)
(* SpecFlags: the flag synthesizers applied to sampled operands.           *)
(***************************************************************************)
InitFlags ==
    /\ vm = VM0
    /\ reg = Reg0
    /\ inp \in [x : Vals32, y : Vals32]
    /\ out = NoOut
    /\ step = 0

ApplyFlag(fn, tree) ==
    /\ out' = [fn |-> fn, v |-> EvalPure(tree, vm)]
    /\ step' = 1
    /\ UNCHANGED <<vm, reg, inp>>

AddCarry ==
    ApplyFlag("add_carry",
              sh_il_is_add_carry(Const32(AddHalves(inp.x, inp.y)), Const32(inp.x), Const32(inp.y)))
SubBorrow ==
    ApplyFlag("sub_borrow",
              sh_il_is_sub_borrow(Const32(SubHalves(inp.x, inp.y)), Const32(inp.x), Const32(inp.y)))
AddOverflow ==
    ApplyFlag("add_overflow",
              sh_il_is_add_overflow(Const32(AddHalves(inp.x, inp.y)), Const32(inp.x), Const32(inp.y)))
SubUnderflow ==
    ApplyFlag("sub_underflow",
              sh_il_is_sub_underflow(Const32(SubHalves(inp.x, inp.y)), Const32(inp.x), Const32(inp.y)))

NextFlags == AddCarry \/ SubBorrow \/ AddOverflow \/ SubUnderflow

SpecFlags == InitFlags /\ [][NextFlags]_vars

\* C2: add-carry is true exactly when x + y > 2^32 - 1, and sub-borrow exactly
\* when x < y as unsigned numbers, res being the sum or difference modulo 2^32.
C2_UnsignedFlags ==
    /\ out.fn = "add_carry" => (IsBool(out.v) /\ (Truth(out.v) <=> SumCarries(inp.x, inp.y)))
    /\ out.fn = "sub_borrow" => (IsBool(out.v) /\ (Truth(out.v) <=> HalvesLt(inp.x, inp.y)))

C2_Witness ==
    /\ out.fn = "add_carry"
    /\ Truth(out.v)
    /\ inp.x[1] < 32768

\* C3: add-overflow is true exactly when the signed sum lies outside
\* [-2^31, 2^31 - 1], and sub-underflow exactly when the signed difference does.
C3_SignedFlags ==
    /\ out.fn = "add_overflow" => (IsBool(out.v) /\ (Truth(out.v) <=> SignedSumOut(inp.x, inp.y)))
    /\ out.fn = "sub_underflow" => (IsBool(out.v) /\ (Truth(out.v) <=> SignedDiffOut(inp.x, inp.y)))

C3_Witness ==
    /\ out.fn = "sub_underflow"
    /\ Truth(out.v)
    /\ inp.x[1] >= 32768

(***************************************************************************)
(* SpecSR: a status word is decomposed into the flag variables by          *)
(* sh_il_set_status_reg and packed again by sh_il_get_status_reg.          *)
(***************************************************************************)
\* b: D, R, B; f: F; qm: M, Q; m: the interrupt mask; ts: S, T; u: the bits
\* of the word that are no flag, all clear or all set
SRWords ==
    {<<b * 4096 + u * 36863, f * 32768 + u * 31744 + qm * 256 + m * 16 + u * 12 + ts>> :
        b \in 0..7, u \in {0, 1}, f \in {0, 1}, qm \in 0..3, m \in 0..MaskMax, ts \in 0..3}

\* the defined flag positions: T 0, S 1, I 4..7, Q 8, M 9, F 15, B 28, R 29, D 30
SRDefinedMask == BvOfHalves(<<28672, 33779>>)

InitSR ==
    /\ vm = VM0
    /\ reg = Reg0
    /\ inp \in [w : SRWords]
    /\ out = NoOut
    /\ step = 0

UnpackSR ==
    /\ step = 0
    /\ vm' = ExecEffect(sh_il_set_status_reg(Const32(inp.w)), vm)
    /\ step' = 1
    /\ UNCHANGED <<reg, inp, out>>

PackSR ==
    /\ step = 1
    /\ out' = [fn |-> "get_status_reg", v |-> EvalPure(sh_il_get_status_reg, vm)]
    /\ step' = 2
    /\ UNCHANGED <<vm, reg, inp>>

NextSR == UnpackSR \/ PackSR

SpecSR == InitSR /\ [][NextSR]_vars

\* C1: packing the flags unpacked from w gives w on every defined flag
\* position (the interrupt mask bits 4..7 included) and zero elsewhere.
C1_RoundTrip ==
    out.fn = "get_status_reg" =>
        /\ IsBv(out.v)
        /\ out.v.b = BvAnd(BvOfHalves(inp.w), SRDefinedMask)

\* the same with the interrupt mask left out of the comparison: bits 0, 1, 8,
\* 9, 15, 28, 29, 30 are reproduced, bits outside 4..7 that are undefined are 0
C1_RoundTripButMask ==
    out.fn = "get_status_reg" =>
        /\ IsBv(out.v)
        /\ vm.ok
        /\ \A i \in 1..SH_REG_SIZE :
              i \notin 5..8 => out.v.b[i] = BvAnd(BvOfHalves(inp.w), SRDefinedMask)[i]
        /\ out.v.b[5] = (IF \E i \in 5..8 : BvOfHalves(inp.w)[i] = 1 THEN 1 ELSE 0)
        /\ \A i \in 6..8 : out.v.b[i] = 0

(***************************************************************************)
(* sh_il.c: the operand resolver.  An operand is [mode, param], param the  *)
(* pair of its two numbers; an instruction is [mnemonic, param, scaling],  *)
(* param the sequence of its operands (the C index plus one).              *)
(***************************************************************************)
\* disassembler.h: the access sizes in bytes; the invalid scaling has (ut8) -1
sh_scaling_size(scaling) ==
    CASE scaling = "SH_SCALING_B" -> 1
      [] scaling = "SH_SCALING_W" -> 2
      [] scaling = "SH_SCALING_L" -> 4
      [] scaling = "SH_SCALING_Q" -> 8
      [] OTHER -> 255

\* the address as a node; pc is a pair of halves
sh_il_get_effective_addr_pc(param, scaling, pc) ==
    LET mode == param.mode
        p0 == param.param[1]
        p1 == param.param[2]
        size == SH_U_ADDR(sh_scaling_size(scaling))
        pcbv == Const32(pc)
    IN  CASE mode \in {"SH_REG_INDIRECT", "SH_REG_INDIRECT_I", "SH_REG_INDIRECT_D"} ->
                sh_il_get_reg(p0)
          [] mode = "SH_REG_INDIRECT_DISP" ->
                ADD(sh_il_get_reg(p0), MUL(SH_U_ADDR(p1), size))
          [] mode = "SH_REG_INDIRECT_INDEXED" ->
                ADD(sh_il_get_reg(SH_REG_IND_R0), sh_il_get_reg(p0))
          [] mode = "SH_GBR_INDIRECT_DISP" ->
                ADD(VARG("gbr"), MUL(SH_U_ADDR(p0), size))
          [] mode = "SH_GBR_INDIRECT_INDEXED" ->
                ADD(VARG("gbr"), sh_il_get_reg(SH_REG_IND_R0))
          [] mode = "SH_PC_RELATIVE_DISP" ->
                LET masked == IF scaling = "SH_SCALING_L"
                              THEN LOGAND(pcbv, UN32(65535, 65532)) ELSE pcbv
                IN  ADD(ADD(masked, SH_U_ADDR(4)), MUL(SH_U_ADDR(p0), size))
          [] mode = "SH_PC_RELATIVE8" ->
                ADD(ADD(pcbv, SH_U_ADDR(4)), SIGNED(SH_ADDR_SIZE, SHIFTL0(SN(8, p0), U8(1))))
          [] mode = "SH_PC_RELATIVE12" ->
                ADD(ADD(pcbv, SH_U_ADDR(4)), SIGNED(SH_ADDR_SIZE, SHIFTL0(SN(12, p0), U8(1))))
          [] mode = "SH_PC_RELATIVE_REG" ->
                ADD(ADD(pcbv, SH_U_ADDR(4)), sh_il_get_reg(p0))
          [] OTHER -> NULL

MemoryModes ==
    {"SH_REG_INDIRECT", "SH_REG_INDIRECT_I", "SH_REG_INDIRECT_D", "SH_REG_INDIRECT_DISP",
     "SH_REG_INDIRECT_INDEXED", "SH_GBR_INDIRECT_DISP", "SH_GBR_INDIRECT_INDEXED",
     "SH_PC_RELATIVE_DISP", "SH_PC_RELATIVE8", "SH_PC_RELATIVE12", "SH_PC_RELATIVE_REG"}

\* SHParamHelper: [pre, pure, post]
sh_il_get_param_pc(param, scaling, pc) ==
    LET mode == param.mode
        p0 == param.param[1]
        size == sh_scaling_size(scaling)
        load == LOADW(BITS_PER_BYTE * size, sh_il_get_effective_addr_pc(param, scaling, pc))
    IN  CASE mode = "SH_REG_DIRECT" ->
                [pre |-> NULL,
                 pure |-> IF scaling \in {"SH_SCALING_INVALID", "SH_SCALING_L"}
                          THEN sh_il_get_reg(p0)
                          ELSE UNSIGNED(BITS_PER_BYTE * size, sh_il_get_reg(p0)),
                 post |-> NULL]
          [] mode = "SH_REG_INDIRECT_I" ->
                [pre |-> NULL, pure |-> load,
                 post |-> sh_il_set_reg(p0, ADD(sh_il_get_reg(p0), SH_U_ADDR(size)))]
          [] mode = "SH_REG_INDIRECT_D" ->
                [pre |-> sh_il_set_reg(p0, SUB(sh_il_get_reg(p0), SH_U_ADDR(size))),
                 pure |-> load, post |-> NULL]
          [] mode \in MemoryModes \ {"SH_REG_INDIRECT_I", "SH_REG_INDIRECT_D"} ->
                [pre |-> NULL, pure |-> load, post |-> NULL]
          [] mode = "SH_IMM_U" -> [pre |-> NULL, pure |-> SH_U_REG(p0), post |-> NULL]
          [] mode = "SH_IMM_S" -> [pre |-> NULL, pure |-> SH_S_REG(p0), post |-> NULL]
          [] OTHER -> [pre |-> NULL, pure |-> NULL, post |-> NULL]

\* the same with the pre-effect run after the target, for the mutant
sh_apply_effects_Late(target, pre, post) ==
    IF IsNull(target)
    THEN IF ~IsNull(pre) THEN (IF ~IsNull(post) THEN SEQ2(pre, post) ELSE pre)
         ELSE IF ~IsNull(post) THEN post ELSE NULL
    ELSE LET t == IF ~IsNull(pre) THEN SEQ2(target, pre) ELSE target
         IN  IF ~IsNull(post) THEN SEQ2(post, t) ELSE t

sh_apply_effects(target, pre, post) ==
    IF IsNull(target)
    THEN IF ~IsNull(pre) THEN (IF ~IsNull(post) THEN SEQ2(pre, post) ELSE pre)
         ELSE IF ~IsNull(post) THEN post ELSE NULL
    ELSE LET t == IF ~IsNull(pre) THEN SEQ2(pre, target) ELSE target
         IN  IF ~IsNull(post) THEN SEQ2(t, post) ELSE t

\* ret when the switch has set it, else the store with the operand's effects
sh_il_set_param_ret(ret, store, ret_h) ==
    IF ~IsNull(ret) THEN sh_apply_effects(ret, NULL, NULL)
    ELSE sh_apply_effects(store, ret_h.pre, ret_h.post)

\* the same with an immediate operand taken for a register, for the mutant
sh_il_set_param_pc_Imm(param, val, scaling, pc) ==
    IF param.mode \in {"SH_IMM_U", "SH_IMM_S"}
    THEN sh_il_set_reg(param.param[1], val)
    ELSE NULL

sh_il_set_param_pc(param, val, scaling, pc) ==
    IF param.mode \in {"SH_REG_DIRECT"} \cup MemoryModes
    THEN sh_il_set_param_ret(
            IF param.mode # "SH_REG_DIRECT" THEN NULL
            ELSE sh_il_set_reg(param.param[1],
                               IF scaling \in {"SH_SCALING_INVALID", "SH_SCALING_L"}
                               THEN val ELSE SIGNED(SH_REG_SIZE, val)),
            STOREW(sh_il_get_effective_addr_pc(param, scaling, pc), val),
            sh_il_get_param_pc(param, scaling, pc))
    ELSE NULL

sh_il_get_pure_param(op, x, pc) == sh_il_get_param_pc(op.param[x + 1], op.scaling, pc).pure
sh_il_set_pure_param(op, x, val, pc) == sh_il_set_param_pc(op.param[x + 1], val, op.scaling, pc)

RegDirect(r) == [mode |-> "SH_REG_DIRECT", param |-> <<r, 0>>]
NoParam == [mode |-> "SH_ADDR_INVALID", param |-> <<0, 0>>]

(***************************************************************************)
(* sh_il.c: DIV1 Rm, Rn.                                                   *)
(***************************************************************************)
\* the sequence, given the operands and the four writes of Rn: the shift, the
\* OR with T, the difference and the sum
sh_il_div1_seq(Rn, Q, M, set) ==
    LET old_q == SETL("old_q", Q)
        q == SETG(SH_SR_Q, MSB(Rn))
        init == SEQ4(old_q, q, set[1], set[2])
        tmp0 == SETL("tmp0", Rn)
        tmp1gt == SETL("tmp1", UGT(Rn, VARL("tmp0")))
        tmp1lt == SETL("tmp1", ULT(Rn, VARL("tmp0")))
        q_inv == BRANCH(Q, SETG(SH_SR_Q, IS_ZERO(VARL("tmp1"))), SETG(SH_SR_Q, VARL("tmp1")))
        q_same == BRANCH(Q, SETG(SH_SR_Q, VARL("tmp1")), SETG(SH_SR_Q, IS_ZERO(VARL("tmp1"))))
        q0m0 == SEQ4(tmp0, set[3], tmp1gt, q_inv)
        q0m1 == SEQ4(tmp0, set[4], tmp1lt, q_same)
        q1m0 == SEQ4(tmp0, set[4], tmp1lt, q_inv)
        q1m1 == SEQ4(tmp0, set[3], tmp1gt, q_same)
        q0 == BRANCH(M, q0m1, q0m0)
        q1 == BRANCH(M, q1m1, q1m0)
        q_switch == BRANCH(VARL("old_q"), q1, q0)
    IN  SEQ3(init, q_switch, SETG(SH_SR_T, EQ(Q, M)))

\* the values written to Rn
sh_il_div1_vals(Rn, Rm) ==
    <<SHIFTL0(Rn, SH_U_REG(1)),
      OR(Rn, UNSIGNED(SH_REG_SIZE, sh_il_get_status_reg_bit(SH_SR_T))),
      SUB(Rn, Rm),
      ADD(Rn, Rm)>>

sh_il_div1_of(op, pc, Rn, vals) ==
    sh_il_div1_seq(Rn, sh_il_get_status_reg_bit(SH_SR_Q), sh_il_get_status_reg_bit(SH_SR_M),
                   [i \in 1..4 |-> sh_il_set_pure_param(op, 1, vals[i], pc)])

sh_il_div1_on(op, pc, Rn, Rm) == sh_il_div1_of(op, pc, Rn, sh_il_div1_vals(Rn, Rm))

sh_il_div1(op, pc) ==
    sh_il_div1_on(op, pc, sh_il_get_pure_param(op, 1, pc), sh_il_get_pure_param(op, 0, pc))

(***************************************************************************)
(* The DIV1 algorithm of the architecture manual, on bit sequences: the    *)
(* registers rn and rm and the bits q, m, t (0 or 1) before the step give  *)
(* the register and the bits after it.                                     *)
(***************************************************************************)
Div1Manual(rn, rm, q, m, t) ==
    LET old_q == q
        q1 == BvMsb(rn)
        r1 == BvOr(BvShl(rn, 1, 0), BvOfNat(SH_REG_SIZE, t))
        tmp0 == r1
        minus == BvSub(r1, rm)
        plus == BvAdd(r1, rm)
        gt == IF BvUlt(tmp0, minus) THEN 1 ELSE 0
        lt == IF BvUlt(plus, tmp0) THEN 1 ELSE 0
        r2 == IF old_q = m THEN minus ELSE plus
        q2 == CASE old_q = 0 /\ m = 0 -> (IF q1 = 0 THEN gt ELSE 1 - gt)
                [] old_q = 0 /\ m = 1 -> (IF q1 = 0 THEN 1 - lt ELSE lt)
                [] old_q = 1 /\ m = 0 -> (IF q1 = 0 THEN lt ELSE 1 - lt)
                [] old_q = 1 /\ m = 1 -> (IF q1 = 0 THEN 1 - gt ELSE gt)
    IN  [rn |-> r2, q |-> q2, t |-> IF q2 = m THEN 1 ELSE 0]

(***************************************************************************)
(* SpecDiv: DIV1 is lifted and the VM runs the effect.  The state keeps    *)
(* whether the lift gave an effect; the effect itself is a function of the *)
(* instruction.                                                            *)
(***************************************************************************)
\* <<m, n>>: both in bank 0, both unbanked, one of each
DivRegs == {<<2, 1>>, <<10, 9>>, <<9, 1>>, <<1, 9>>}

DivOp(regs) ==
    [mnemonic |-> "SH_OP_DIV1", param |-> <<RegDirect(regs[1]), RegDirect(regs[2])>>,
     scaling |-> "SH_SCALING_INVALID"]

InitDiv ==
    /\ inp \in [rn : Vals32, rm : Vals32, q : 0..1, m : 0..1, t : 0..1, regs : DivRegs]
    /\ vm = [VM0 EXCEPT !.g = [n \in GlobalNames |->
                CASE n = sh_registers[inp.regs[2] + 1] -> Bv(BvOfHalves(inp.rn))
                  [] n = sh_registers[inp.regs[1] + 1] -> Bv(BvOfHalves(inp.rm))
                  [] n = SH_SR_Q -> Bool(inp.q = 1)
                  [] n = SH_SR_M -> Bool(inp.m = 1)
                  [] n = SH_SR_T -> Bool(inp.t = 1)
                  [] OTHER -> VM0.g[n]]]
    /\ reg = Reg0
    /\ out = NoOut
    /\ step = 0

LiftDiv1 ==
    /\ step = 0
    /\ out' = [fn |-> "div1", lifted |-> ~IsNull(sh_il_div1(DivOp(inp.regs), <<0, 0>>))]
    /\ step' = 1
    /\ UNCHANGED <<vm, reg, inp>>

StepDiv1 ==
    /\ step = 1
    /\ out.lifted
    /\ vm' = ExecEffect(sh_il_div1(DivOp(inp.regs), <<0, 0>>), vm)
    /\ step' = 2
    /\ UNCHANGED <<reg, inp, out>>

NextDiv == LiftDiv1 \/ StepDiv1

SpecDiv == InitDiv /\ [][NextDiv]_vars

DivExpected == Div1Manual(BvOfHalves(inp.rn), BvOfHalves(inp.rm), inp.q, inp.m, inp.t)

\* C4: after the DIV1 effect has run, Rn, Q and T are those of the manual's
\* reference algorithm.
C4_Div1Manual ==
    step = 2 =>
        /\ vm.ok
        /\ vm.g[sh_registers[inp.regs[2] + 1]] = Bv(DivExpected.rn)
        /\ vm.g[SH_SR_Q] = Bool(DivExpected.q = 1)
        /\ vm.g[SH_SR_T] = Bool(DivExpected.t = 1)

\* what the effect does do: it stops at the bitwise OR of Rn and T, built as
\* a boolean OR, with Q = MSB(Rn) and Rn shifted left once
C4_Div1Stops ==
    step = 2 =>
        /\ ~vm.ok
        /\ vm.g[sh_registers[inp.regs[2] + 1]] = Bv(BvShl(BvOfHalves(inp.rn), 1, 0))
        /\ vm.g[SH_SR_Q] = Bool(BvMsb(BvOfHalves(inp.rn)) = 1)
        /\ vm.g[SH_SR_T] = Bool(inp.t = 1)

(***************************************************************************)
(* Register profiles (RzReg).  An item is [name, type, offset, size]; type *)
(* is the class (regset) the item lives in, each class with its own arena, *)
(* so a bit of the register file is a pair <<type, position>>.  pc is the  *)
(* name with the role RZ_REG_NAME_PC, "" when the profile names none.      *)
(***************************************************************************)
\* the classes, in the order of the loop over the regsets
RegClasses == <<0, 1>>

NoItem == [name |-> "", type |-> 0, offset |-> 0, size |-> 0]

\* rz_reg_get_name(reg, RZ_REG_NAME_PC)
rz_reg_get_name_pc(r) == r.pc

RECURSIVE rz_reg_get_from(_, _, _)
rz_reg_get_from(items, name, k) ==
    IF k > Len(items) THEN NoItem
    ELSE IF items[k].name = name THEN items[k]
    ELSE rz_reg_get_from(items, name, k + 1)

\* rz_reg_get(reg, name, RZ_REG_TYPE_ANY): NoItem stands for NULL
rz_reg_get(r, name) == rz_reg_get_from(r.items, name, 1)

\* the bits an item occupies
ItemBits(it) == {<<it.type, k>> : k \in it.offset..(it.offset + it.size - 1)}

\* a covers b and is larger
Covers(a, b) ==
    /\ a.offset <= b.offset
    /\ a.offset + a.size >= b.offset + b.size
    /\ a.size > b.size

\* rz_reg_filter_items_covered: the items no larger item of the list covers
rz_reg_filter_items_covered(regs) ==
    SelectSeq(regs, LAMBDA it : ~\E k \in 1..Len(regs) : Covers(regs[k], it))

(***************************************************************************)
(* rz_il_reg_binding_derive.  A binding is a sequence of [name, size].     *)
(***************************************************************************)
BindingItem(it) == [name |-> it.name, size |-> it.size]

\* every 1-bit item, whatever its offset, for the mutant
BindFlags_All(regs, k, flags) == SelectSeq(regs, LAMBDA it : it.size = 1)

\* the 1-bit items, but for those at the offset of a flag taken before
RECURSIVE BindFlags(_, _, _)
BindFlags(regs, k, flags) ==
    IF k > Len(regs) THEN flags
    ELSE IF regs[k].size # 1 THEN BindFlags(regs, k + 1, flags)
    ELSE IF \E j \in 1..Len(flags) : flags[j].offset = regs[k].offset
         THEN BindFlags(regs, k + 1, flags)
    ELSE BindFlags(regs, k + 1, Append(flags, regs[k]))

\* the items that contain no flag
NonFlags(regs, flags) ==
    SelectSeq(regs, LAMBDA it :
        ~\E j \in 1..Len(flags) :
            flags[j].offset >= it.offset /\ flags[j].offset < it.offset + it.size)

reg_offset_cmp(a, b) == a.offset - b.offset

\* rz_list_sort with reg_offset_cmp: the items by offset.  The order of items
\* of the same offset is the sort's own: rev ranks the items, and of two
\* items of one offset the one of the lower rank comes first, so that every
\* order of such items is the result for some rev
RECURSIVE SortInsert(_, _, _)
SortInsert(sorted, it, rev) ==
    IF sorted = <<>> THEN <<it>>
    ELSE IF reg_offset_cmp(Head(sorted), it) < 0
            \/ (reg_offset_cmp(Head(sorted), it) = 0 /\ rev[Head(sorted).name] < rev[it.name])
         THEN <<Head(sorted)>> \o SortInsert(Tail(sorted), it, rev)
    ELSE <<it>> \o sorted

RECURSIVE SortByOffset(_, _, _, _)
SortByOffset(items, k, sorted, rev) ==
    IF k > Len(items) THEN sorted
    ELSE SortByOffset(items, k + 1, SortInsert(sorted, items[k], rev), rev)

\* the scan with the overlap test left out
RECURSIVE BindScanAll(_, _, _, _, _)
BindScanAll(items, k, prev, pc, acc) ==
    IF k > Len(items) THEN acc
    ELSE IF pc # "" /\ items[k].name = pc
         THEN BindScanAll(items, k + 1, prev, pc, acc)
    ELSE BindScanAll(items, k + 1, items[k], pc, Append(acc, BindingItem(items[k])))

\* the scan of the sorted items: prev is the item bound last
RECURSIVE BindScan(_, _, _, _, _)
BindScan(items, k, prev, pc, acc) ==
    IF k > Len(items) THEN acc
    ELSE IF prev # NoItem /\ prev.offset + prev.size > items[k].offset
         THEN BindScan(items, k + 1, prev, pc, acc)
    ELSE IF pc # "" /\ items[k].name = pc
         THEN BindScan(items, k + 1, prev, pc, acc)
    ELSE BindScan(items, k + 1, items[k], pc, Append(acc, BindingItem(items[k])))

\* what one class adds to the binding: its flags, then the scan of the rest
BindClassOf(regs, flags, pc, rev) ==
    [k \in 1..Len(flags) |-> BindingItem(flags[k])]
    \o BindScan(SortByOffset(rz_reg_filter_items_covered(NonFlags(regs, flags)), 1, <<>>, rev),
                1, NoItem, pc, <<>>)

BindClassRegs(r, regs, rev) == BindClassOf(regs, BindFlags(regs, 1, <<>>), rz_reg_get_name_pc(r), rev)

BindClass(r, i, rev) == BindClassRegs(r, SelectSeq(r.items, LAMBDA it : it.type = i), rev)

\* the ranks of the items of a profile: each class is sorted by a call of its
\* own, and a rank for every item gives every order to every class
SortOrders(r) ==
    {rev \in [{r.items[k].name : k \in 1..Len(r.items)} -> 1..Len(r.items)] :
        \A k, j \in 1..Len(r.items) :
            r.items[k].name # r.items[j].name => rev[r.items[k].name] # rev[r.items[j].name]}

RECURSIVE rz_il_reg_binding_derive_from(_, _, _)
rz_il_reg_binding_derive_from(r, i, rev) ==
    IF i > Len(RegClasses) THEN <<>>
    ELSE BindClass(r, RegClasses[i], rev) \o rz_il_reg_binding_derive_from(r, i + 1, rev)

rz_il_reg_binding_derive(r, rev) == rz_il_reg_binding_derive_from(r, 1, rev)

(***************************************************************************)
(* SpecBind: a binding is derived from a sampled profile of three items.   *)
(***************************************************************************)
ProfileNames == <<"a", "b", "c">>
ProfileItems ==
    [type : {RegClasses[i] : i \in 1..Len(RegClasses)}, offset : 0..MaxOff, size : 1..MaxSize]

InitBind ==
    /\ vm = VM0
    /\ \E its \in [1..Len(ProfileNames) -> ProfileItems], pc \in {""} \cup {ProfileNames[i] : i \in 1..Len(ProfileNames)} :
          reg = [items |-> [k \in 1..Len(ProfileNames) |->
                               [name |-> ProfileNames[k], type |-> its[k].type,
                                offset |-> its[k].offset, size |-> its[k].size]],
                 pc |-> pc, arena |-> <<>>]
    /\ inp = 0
    /\ out = NoOut
    /\ step = 0

DeriveBinding ==
    /\ step = 0
    /\ \E rev \in SortOrders(reg) :
          out' = [fn |-> "derive", regs |-> rz_il_reg_binding_derive(reg, rev)]
    /\ step' = 1
    /\ UNCHANGED <<vm, reg, inp>>

NextBind == DeriveBinding

SpecBind == InitBind /\ [][NextBind]_vars

\* the item of the profile that a binding entry names
Bound == {rz_reg_get(reg, out.regs[k].name) : k \in 1..Len(out.regs)}

\* C5: no two bound entries wider than one bit share a bit of one class, and
\* no bound entry wider than one bit contains the bit of a bound flag.
C5_NoOverlap ==
    out.fn = "derive" =>
        /\ \A k \in 1..Len(out.regs) : rz_reg_get(reg, out.regs[k].name) # NoItem
        /\ \A e \in Bound, f \in Bound :
              (e # f /\ e.size > 1) => ItemBits(e) \cap ItemBits(f) = {}

\* two entries wider than one bit are bound in one class and a third item,
\* which overlaps one of them, is left out
C5_Witness ==
    /\ out.fn = "derive"
    /\ \E e \in Bound, f \in Bound :
          e # f /\ e.size > 1 /\ f.size > 1 /\ e.type = f.type
    /\ \E k \in 1..Len(reg.items) :
          /\ reg.items[k] \notin Bound
          /\ reg.items[k].name # rz_reg_get_name_pc(reg)
          /\ \E e \in Bound :
                /\ ItemBits(e) \cap ItemBits(reg.items[k]) # {}
                /\ ~(ItemBits(reg.items[k]) \subseteq ItemBits(e))

\* C6: the name of the program counter is no entry of the derived binding.
C6_NoPC ==
    (out.fn = "derive" /\ rz_reg_get_name_pc(reg) # "") =>
        \A k \in 1..Len(out.regs) : out.regs[k].name # rz_reg_get_name_pc(reg)

\* the same for a program counter wider than one bit
C6_NoWidePC ==
    (out.fn = "derive" /\ rz_reg_get(reg, rz_reg_get_name_pc(reg)).size > 1) =>
        \A k \in 1..Len(out.regs) : out.regs[k].name # rz_reg_get_name_pc(reg)

(***************************************************************************)
(* The register sync.  The VM of the sync holds the variables SyncNames;   *)
(* a name without a variable has the value NoVal.  The arena of a class is *)
(* a sequence of bits, bit k of the class at index k + 1.                  *)
(***************************************************************************)
SyncNames == {"x", "y"}
NoVal == [t |-> "none", b |-> <<>>]

ArenaZero == [c \in {RegClasses[i] : i \in 1..Len(RegClasses)} |-> BvZero(MaxOff + MaxSize)]

\* rz_reg_set_bv: the bits of bv go to the item's place in its arena
rz_reg_set_bv_arena(arena, ri, bv) ==
    [arena EXCEPT ![ri.type] =
        Bits([k \in 1..Len(@) |->
                IF k > ri.offset /\ k <= ri.offset + ri.size /\ k - ri.offset <= Len(bv)
                THEN bv[k - ri.offset] ELSE @[k]])]

\* the result of rz_reg_set_bv
rz_reg_set_bv(ri, bv) == Len(bv) = ri.size

\* rz_il_hash_find_val_by_name
rz_il_hash_find_val_by_name(v, name) == IF name \in DOMAIN v.g THEN v.g[name] ELSE NoVal

\* rz_il_vm_add_reg: a variable that holds the zero vector of the size
RECURSIVE rz_il_vm_add_regs(_, _, _)
rz_il_vm_add_regs(g, rb, i) ==
    IF i > Len(rb) THEN g
    ELSE rz_il_vm_add_regs([g EXCEPT ![rb[i].name] = Bv(BvZero(rb[i].size))], rb, i + 1)

\* the same without the test of vm->reg_binding, for the mutant
rz_il_vm_setup_reg_binding_Again(v, rb) ==
    [v EXCEPT !.reg_binding = rb, !.bound = TRUE, !.g = rz_il_vm_add_regs(v.g, rb, 1)]

\* a VM that has a binding is left as it is (rz_return_if_fail)
rz_il_vm_setup_reg_binding(v, rb) ==
    IF v.bound THEN v
    ELSE [v EXCEPT !.reg_binding = rb, !.bound = TRUE, !.g = rz_il_vm_add_regs(v.g, rb, 1)]

\* the value pushed for the program counter, or for a variable of another width
sync_resized(bv, size) == rz_bv_copy_nbits(bv, BvZero(size), RZ_MIN(size, Len(bv)))

\* the program counter part of rz_il_vm_sync_to_reg: acc is [arena, perfect, writes]
sync_to_reg_pc_of(v, ri, acc) ==
    IF ri = NoItem THEN [acc EXCEPT !.perfect = FALSE]
    ELSE [arena |-> rz_reg_set_bv_arena(acc.arena, ri, sync_resized(v.pc, ri.size)),
          perfect |-> acc.perfect /\ ri.size = Len(v.pc),
          writes |-> Append(acc.writes, [name |-> ri.name, from |-> "pc", bv |-> sync_resized(v.pc, ri.size)])]

sync_to_reg_pc(v, r, acc) ==
    IF rz_reg_get_name_pc(r) = "" THEN [acc EXCEPT !.perfect = FALSE]
    ELSE sync_to_reg_pc_of(v, rz_reg_get(r, rz_reg_get_name_pc(r)), acc)

\* the push of a variable that holds the wrong width with the high bits kept
sync_to_reg_bv_High(val, ri) ==
    IF Len(val.b) # ri.size
    THEN Bits([k \in 1..ri.size |->
                 IF k + Len(val.b) - ri.size >= 1 THEN val.b[k + Len(val.b) - ri.size] ELSE 0])
    ELSE val.b

\* the vector pushed for a variable that holds a bitvector
sync_to_reg_bv(val, ri) ==
    IF Len(val.b) # ri.size
    THEN sync_resized(val.b, ri.size)
    ELSE val.b

\* the fidelity of one entry with only the register looked at
sync_to_reg_fits_Any(val, ri) == TRUE

\* whether one entry is pushed as it is
sync_to_reg_fits(val, ri) == Len(val.b) = ri.size

\* one step of the loop over the binding, the register ri found
sync_to_reg_item_of(val, ri, acc) ==
    IF val = NoVal \/ val.t # "bv"
    THEN [arena |-> rz_reg_set_bv_arena(acc.arena, ri, BvZero(ri.size)),
          perfect |-> FALSE,
          writes |-> Append(acc.writes, [name |-> ri.name, from |-> "var", bv |-> BvZero(ri.size)])]
    ELSE [arena |-> rz_reg_set_bv_arena(acc.arena, ri, sync_to_reg_bv(val, ri)),
          perfect |-> acc.perfect /\ sync_to_reg_fits(val, ri)
                         /\ rz_reg_set_bv(ri, sync_to_reg_bv(val, ri)),
          writes |-> Append(acc.writes, [name |-> ri.name, from |-> "var", bv |-> sync_to_reg_bv(val, ri)])]

sync_to_reg_item(v, item, ri, acc) ==
    IF ri = NoItem THEN [acc EXCEPT !.perfect = FALSE]
    ELSE sync_to_reg_item_of(rz_il_hash_find_val_by_name(v, item.name), ri, acc)

RECURSIVE sync_to_reg_items(_, _, _, _)
sync_to_reg_items(v, r, i, acc) ==
    IF i > Len(v.reg_binding) THEN acc
    ELSE sync_to_reg_items(v, r, i + 1,
            sync_to_reg_item(v, v.reg_binding[i], rz_reg_get(r, v.reg_binding[i].name), acc))

sync_to_reg_bound(v, r, acc) ==
    IF ~v.bound THEN [acc EXCEPT !.perfect = FALSE]
    ELSE sync_to_reg_items(v, r, 1, acc)

\* the register file after the push, the value returned and the vectors written
rz_il_vm_sync_to_reg(v, r) ==
    sync_to_reg_bound(v, r, sync_to_reg_pc(v, r, [arena |-> r.arena, perfect |-> TRUE, writes |-> <<>>]))

(***************************************************************************)
(* SpecSync: a VM is bound to the binding derived from a profile, the host *)
(* may load another profile, the VM may write a variable, and the VM is    *)
(* pushed to the register file.                                            *)
(***************************************************************************)
\* profiles of the registers x (at offset 0) and y, either of which may be
\* missing; the program counter is x, a name without a register, or none
SyncItems(name) ==
    {[name |-> name, type |-> RegClasses[1], offset |-> o, size |-> sz] :
        o \in (IF name = "x" THEN {0} ELSE 0..MaxOff), sz \in 1..MaxSize}

SyncProfiles ==
    {[items |-> its, pc |-> pc, arena |-> ArenaZero] :
        its \in {<<a, b>> : a \in SyncItems("x"), b \in SyncItems("y")}
                \cup {<<a>> : a \in SyncItems("x") \cup SyncItems("y")},
        pc \in {"", "x", "p"}}

\* the values a variable may hold: a boolean or a vector of 1..MaxSize bits
SyncVals ==
    {Bool(FALSE), Bool(TRUE)}
    \cup UNION {{Bv(BvOfNat(w, n)) : n \in 0..(Pow2(w) - 1)} : w \in 1..MaxSize}

InitSync ==
    /\ \E pcbv \in {<<0, 1>>, <<1, 0, 1>>} :
          vm = [g |-> [n \in SyncNames |-> NoVal], l |-> <<>>, pc |-> pcbv, ok |-> TRUE,
                events |-> <<>>, reg_binding |-> <<>>, bound |-> FALSE]
    /\ reg \in SyncProfiles
    /\ inp = 0
    /\ out = NoOut
    /\ step = 0

\* rz_il_reg_binding_derive, then rz_il_vm_setup_reg_binding
SetupBinding ==
    /\ step = 0
    /\ ~vm.bound
    /\ \E rev \in SortOrders(reg) :
          vm' = rz_il_vm_setup_reg_binding(vm, rz_il_reg_binding_derive(reg, rev))
    /\ out' = [fn |-> "setup"]
    /\ step' = 1
    /\ UNCHANGED <<reg, inp>>

\* the host loads another profile
LoadProfile ==
    /\ step = 1
    /\ reg' \in SyncProfiles
    /\ out' = [fn |-> "profile"]
    /\ step' = 2
    /\ UNCHANGED <<vm, inp>>

\* an effect of the VM gives a bound variable another value
SetVar ==
    /\ step \in {1, 2}
    /\ \E i \in 1..Len(vm.reg_binding), val \in SyncVals :
          vm' = [vm EXCEPT !.g[vm.reg_binding[i].name] = val]
    /\ out' = [fn |-> "set"]
    /\ step' = 3
    /\ UNCHANGED <<reg, inp>>

SyncToReg ==
    /\ step < 4
    /\ LET res == rz_il_vm_sync_to_reg(vm, reg) IN
          /\ reg' = [reg EXCEPT !.arena = res.arena]
          /\ out' = [fn |-> "sync_to_reg", ret |-> res.perfect, writes |-> res.writes]
    /\ step' = 4
    /\ UNCHANGED <<vm, inp>>

NextSync == SetupBinding \/ LoadProfile \/ SetVar \/ SyncToReg

SpecSync == InitSync /\ [][NextSync]_vars

\* the entries of the binding whose variable holds a vector and whose
\* register exists
SyncPushed ==
    {i \in 1..Len(vm.reg_binding) :
        /\ vm.g[vm.reg_binding[i].name].t = "bv"
        /\ rz_reg_get(reg, vm.reg_binding[i].name) # NoItem}

\* the value of width v as a value of width r: its low r bits, zeros above
Coerced(b, r) == BvOfNat(r, BvToNat(b) % Pow2(r))

\* C7: for every bound entry whose variable holds a vector of width v and
\* whose register has width r, the push writes the value zero-extended to r
\* bits when v < r, its low r bits when v > r, and the value itself when v = r.
C7_PushCoerces ==
    (out.fn = "sync_to_reg" /\ vm.bound) =>
        \A i \in SyncPushed :
            LET name == vm.reg_binding[i].name
                r == rz_reg_get(reg, name).size
                b == vm.g[name].b
            IN /\ \E k \in 1..Len(out.writes) :
                     out.writes[k] = [name |-> name, from |-> "var", bv |-> Coerced(b, r)]
               /\ Len(b) = r =>
                     \E k \in 1..Len(out.writes) :
                        out.writes[k] = [name |-> name, from |-> "var", bv |-> b]

\* a push in which one variable is wider than its register and loses set
\* bits, and another is narrower than its register
C7_Witness ==
    /\ out.fn = "sync_to_reg"
    /\ vm.bound
    /\ \E i \in SyncPushed, j \in SyncPushed :
          LET bi == vm.g[vm.reg_binding[i].name].b
              ri == rz_reg_get(reg, vm.reg_binding[i].name).size
              bj == vm.g[vm.reg_binding[j].name].b
              rj == rz_reg_get(reg, vm.reg_binding[j].name).size
          IN /\ Len(bi) > ri
             /\ BvToNat(bi) >= Pow2(ri)
             /\ BvToNat(bi) % Pow2(ri) # 0
             /\ Len(bj) < rj

\* an entry that needs a coercion or lacks its register or its variable
SyncEntryLacks(i) ==
    LET name == vm.reg_binding[i].name IN
    \/ rz_reg_get(reg, name) = NoItem
    \/ vm.g[name] = NoVal
    \/ (vm.g[name].t = "bv" /\ Len(vm.g[name].b) # rz_reg_get(reg, name).size)

\* the program counter of the VM has no register of its width in the profile
SyncPCLacks ==
    \/ rz_reg_get_name_pc(reg) = ""
    \/ rz_reg_get(reg, rz_reg_get_name_pc(reg)) = NoItem
    \/ rz_reg_get(reg, rz_reg_get_name_pc(reg)).size # Len(vm.pc)

\* C8 as stated: the push returns false if and only if some bound entry needed
\* a coercion or lacked its register or its variable.
C8_FidelityEntriesOnly ==
    out.fn = "sync_to_reg" =>
        (out.ret = FALSE <=> (vm.bound /\ \E i \in 1..Len(vm.reg_binding) : SyncEntryLacks(i)))

\* C8: the push returns false if and only if the VM has no binding, or the
\* program counter has no register of its width, or some bound entry lacked
\* its register or its variable, held no vector, or needed a coercion.
C8_Fidelity ==
    out.fn = "sync_to_reg" =>
        (out.ret = FALSE <=>
            \/ ~vm.bound
            \/ SyncPCLacks
            \/ \E i \in 1..Len(vm.reg_binding) :
                  SyncEntryLacks(i) \/ vm.g[vm.reg_binding[i].name].t # "bv")

\* a push of two entries that need no coercion returns false for the program
\* counter alone
C8_Witness ==
    /\ out.fn = "sync_to_reg"
    /\ out.ret = FALSE
    /\ vm.bound
    /\ Len(vm.reg_binding) > 1
    /\ \A i \in 1..Len(vm.reg_binding) :
          ~SyncEntryLacks(i) /\ vm.g[vm.reg_binding[i].name].t = "bv"

(***************************************************************************)
(* sh_il.c: the privileged instructions.  A generator gets the VM of the   *)
(* analysis and returns [il_op, vm]: the effect (NULL for none) and the VM *)
(* after the call.                                                         *)
(***************************************************************************)
\* rz_il_event_exception_new("SuperH: RESINST")
RESINST == [type |-> "exception", msg |-> "SuperH: RESINST"]

rz_il_vm_event_add(v, ev) == [v EXCEPT !.events = Append(@, ev)]

\* rz_il_evaluate_bitv(vm, sh_il_get_status_reg_bit(SH_SR_D))
sh_il_priv_bit(v) == EvalPure(sh_il_get_status_reg_bit(SH_SR_D), v)

\* state: 1 for user mode, plus 2 for a register that is not GBR
sh_il_priv_state(r, priv_bit) ==
    (IF BvIsZero(priv_bit.b) THEN 1 ELSE 0) + (IF r # SH_REG_IND_GBR THEN 2 ELSE 0)

sh_il_ldc_set(op, pc, val) ==
    IF sh_valid_gpr(op.param[2].param[1])
    THEN SETG(sh_get_banked_reg(op.param[2].param[1], 1), val)
    ELSE sh_il_set_pure_param(op, 1, val, pc)

sh_il_ldc_of(op, pc, rm) ==
    IF op.scaling = "SH_SCALING_INVALID" THEN sh_il_ldc_set(op, pc, rm.pure)
    ELSE IF op.scaling = "SH_SCALING_L" THEN SEQ2(sh_il_ldc_set(op, pc, rm.pure), rm.post)
    ELSE NOP

\* LDC with the exemption of GBR left out
sh_il_ldc_NoGBR(op, pc, v) ==
    IF BvIsZero(sh_il_priv_bit(v).b)
    THEN [il_op |-> NULL, vm |-> rz_il_vm_event_add(v, RESINST)]
    ELSE [il_op |-> sh_il_ldc_of(op, pc, sh_il_get_param_pc(op.param[1], op.scaling, pc)), vm |-> v]

sh_il_ldc(op, pc, v) ==
    IF sh_il_priv_state(op.param[2].param[1], sh_il_priv_bit(v)) = 3
    THEN [il_op |-> NULL, vm |-> rz_il_vm_event_add(v, RESINST)]
    ELSE [il_op |-> sh_il_ldc_of(op, pc, sh_il_get_param_pc(op.param[1], op.scaling, pc)), vm |-> v]

sh_il_rte(op, pc, v) ==
    IF BvIsZero(sh_il_priv_bit(v).b)
    THEN [il_op |-> NULL, vm |-> rz_il_vm_event_add(v, RESINST)]
    ELSE [il_op |-> SEQ2(sh_il_set_status_reg(VARG("ssr")), JMP(VARG("spc"))), vm |-> v]

sh_il_sett(op, pc, v) == [il_op |-> SETG(SH_SR_T, IL_TRUE), vm |-> v]

sh_il_sleep(op, pc, v) ==
    IF BvIsZero(sh_il_priv_bit(v).b)
    THEN [il_op |-> NULL, vm |-> rz_il_vm_event_add(v, RESINST)]
    ELSE [il_op |-> NOP, vm |-> v]

sh_il_stc_of(op, pc) ==
    sh_il_set_pure_param(op, 1,
        IF sh_valid_gpr(op.param[1].param[1])
        THEN VARG(sh_get_banked_reg(op.param[1].param[1], 1))
        ELSE sh_il_get_pure_param(op, 0, pc),
        pc)

sh_il_stc(op, pc, v) ==
    IF sh_il_priv_state(op.param[1].param[1], sh_il_priv_bit(v)) = 3
    THEN [il_op |-> NULL, vm |-> rz_il_vm_event_add(v, RESINST)]
    ELSE [il_op |-> sh_il_stc_of(op, pc), vm |-> v]

(***************************************************************************)
(* sh_il.c: the MOV family and ADD.                                        *)
(***************************************************************************)
sh_il_mov_of(op, pc, shp) ==
    sh_apply_effects(sh_il_set_pure_param(op, 1, shp.pure, pc), shp.pre, shp.post)

sh_il_mov(op, pc) == sh_il_mov_of(op, pc, sh_il_get_param_pc(op.param[1], op.scaling, pc))

\* the sum of the two operands, the wrong way round for the mutant
sh_il_add_Sub(op, pc) ==
    sh_il_set_pure_param(op, 1, SUB(sh_il_get_pure_param(op, 0, pc), sh_il_get_pure_param(op, 1, pc)), pc)

sh_il_add(op, pc) ==
    sh_il_set_pure_param(op, 1, ADD(sh_il_get_pure_param(op, 0, pc), sh_il_get_pure_param(op, 1, pc)), pc)

(***************************************************************************)
(* sh_il.c: MAC.L and MAC.W @Rm+, @Rn+.                                    *)
(***************************************************************************)
\* UN(l, 2^n - 1): the constants 0xffffffffffff and 0xffffffff on 64 bits
UNOnes(l, n) == <<"BV", Bits([i \in 1..l |-> IF i <= n THEN 1 ELSE 0])>>

\* the local mac set from MACH:MACL
sh_il_mac_load ==
    SETL("mac", LOGOR(SHIFTL0(UNSIGNED(2 * SH_REG_SIZE, VARG("mach")), SH_U_REG(SH_REG_SIZE)),
                      UNSIGNED(2 * SH_REG_SIZE, VARG("macl"))))

\* the halves of the local mac into MACL and MACH
sh_il_mac_lower == UNSIGNED(SH_REG_SIZE, LOGAND(VARL("mac"), UNOnes(2 * SH_REG_SIZE, SH_REG_SIZE)))
sh_il_mac_higher == UNSIGNED(SH_REG_SIZE, SHIFTR0(VARL("mac"), SH_U_REG(SH_REG_SIZE)))

\* the long-word form with the branch taken on the flag S itself and the sum
\* written to the local mac in both arms
sh_il_mac_l_Local(add) ==
    SEQ3(SEQ2(sh_il_mac_load,
              <<"BRANCH", VARG(SH_SR_S),
                SETL("mac", SIGNED(2 * SH_REG_SIZE,
                        UNSIGNED(48, LOGAND(add, UNOnes(2 * SH_REG_SIZE, 48))))),
                SETL("mac", DUP(add))>>),
         SETG("macl", sh_il_mac_lower), SETG("mach", sh_il_mac_higher))

\* the long-word form, add the sum of the product and the local mac
sh_il_mac_l(add) ==
    SEQ3(SEQ2(sh_il_mac_load,
              BRANCH(sh_il_get_status_reg_bit(SH_SR_S),
                     SETL("mac", SIGNED(2 * SH_REG_SIZE,
                             UNSIGNED(48, LOGAND(add, UNOnes(2 * SH_REG_SIZE, 48))))),
                     SETG("mac", DUP(add)))),
         SETG("macl", sh_il_mac_lower), SETG("mach", sh_il_mac_higher))

\* the word form, mul the product and add its sum with the global mac
sh_il_mac_w_of(mul, add) ==
    SEQ2(sh_il_mac_load,
         BRANCH(sh_il_get_status_reg_bit(SH_SR_S),
                SETG("macl", ADD(UNSIGNED(SH_REG_SIZE, DUP(mul)), VARG("macl"))),
                SEQ2(SETG("macl", UNSIGNED(SH_REG_SIZE, LOGAND(add, UNOnes(2 * SH_REG_SIZE, SH_REG_SIZE)))),
                     SETG("mach", UNSIGNED(SH_REG_SIZE, SHIFTR0(DUP(add), SH_U_REG(SH_REG_SIZE)))))))

sh_il_mac_w(mul) == sh_il_mac_w_of(mul, ADD(mul, VARG("mac")))

sh_il_mac_of(op, shp_rm, shp_rn) ==
    SEQ3(IF op.scaling = "SH_SCALING_L"
         THEN sh_il_mac_l(ADD(MUL(SIGNED(2 * SH_REG_SIZE, shp_rm.pure),
                                  SIGNED(2 * SH_REG_SIZE, shp_rn.pure)),
                              VARL("mac")))
         ELSE IF op.scaling = "SH_SCALING_W"
         THEN sh_il_mac_w(UNSIGNED(2 * SH_REG_SIZE,
                                   MUL(SIGNED(SH_REG_SIZE, shp_rm.pure), SIGNED(SH_REG_SIZE, shp_rn.pure))))
         ELSE NULL,
         shp_rn.post, shp_rm.post)

sh_il_mac(op, pc) ==
    sh_il_mac_of(op, sh_il_get_param_pc(op.param[1], op.scaling, pc),
                 sh_il_get_param_pc(op.param[2], op.scaling, pc))

(***************************************************************************)
(* sh_il.c: compare, subtract, add with carry, decrement and swap.         *)
(***************************************************************************)
\* the comparison with the flag set on a difference, for the mutant
sh_il_cmp_eq_Ne(op, pc) ==
    SETG(SH_SR_T, INV(EQ(sh_il_get_pure_param(op, 0, pc), sh_il_get_pure_param(op, 1, pc))))

sh_il_cmp_eq(op, pc) ==
    SETG(SH_SR_T, EQ(sh_il_get_pure_param(op, 0, pc), sh_il_get_pure_param(op, 1, pc)))

sh_il_sub(op, pc) ==
    sh_il_set_pure_param(op, 1, SUB(sh_il_get_pure_param(op, 0, pc), sh_il_get_pure_param(op, 1, pc)), pc)

\* ret and tbit of the instructions that write a result and then the flag T
sh_il_flagged(op, pc, res, tbit) ==
    SEQ2(sh_il_set_pure_param(op, 1, res, pc), SETG(SH_SR_T, tbit))

sh_il_addc_sum(op, pc) ==
    ADD(ADD(sh_il_get_pure_param(op, 0, pc), sh_il_get_pure_param(op, 1, pc)),
        UNSIGNED(SH_REG_SIZE, sh_il_get_status_reg_bit(SH_SR_T)))

sh_il_addc(op, pc) ==
    sh_il_flagged(op, pc, sh_il_addc_sum(op, pc),
                  sh_il_is_add_carry(DUP(sh_il_addc_sum(op, pc)),
                                     sh_il_get_pure_param(op, 0, pc), sh_il_get_pure_param(op, 1, pc)))

sh_il_subc_dif(op, pc) ==
    SUB(ADD(sh_il_get_pure_param(op, 0, pc), sh_il_get_pure_param(op, 1, pc)),
        UNSIGNED(SH_REG_SIZE, sh_il_get_status_reg_bit(SH_SR_T)))

sh_il_subc(op, pc) ==
    sh_il_flagged(op, pc, sh_il_subc_dif(op, pc),
                  sh_il_is_sub_borrow(DUP(sh_il_subc_dif(op, pc)),
                                      sh_il_get_pure_param(op, 0, pc), sh_il_get_pure_param(op, 1, pc)))

sh_il_subv_dif(op, pc) ==
    SUB(sh_il_get_pure_param(op, 0, pc), sh_il_get_pure_param(op, 1, pc))

sh_il_subv(op, pc) ==
    sh_il_flagged(op, pc, sh_il_subv_dif(op, pc),
                  sh_il_is_sub_underflow(DUP(sh_il_subv_dif(op, pc)),
                                         sh_il_get_pure_param(op, 0, pc), sh_il_get_pure_param(op, 1, pc)))

sh_il_dt(op, pc) ==
    SEQ2(sh_il_set_pure_param(op, 0, SUB(sh_il_get_pure_param(op, 0, pc), SH_U_REG(1)), pc),
         SETG(SH_SR_T, NON_ZERO(sh_il_get_pure_param(op, 0, pc))))

\* the byte form: the lower two bytes exchanged
sh_il_swap_b(op, pc, p0) ==
    LET lower_byte == AND(p0, SH_U_REG(255))
        new_lower_byte == AND(SHIFTR0(p0, SH_U_REG(BITS_PER_BYTE)), SH_U_REG(255))
        new_upper_byte == SHIFTL0(lower_byte, SH_U_REG(BITS_PER_BYTE))
        upper_word == LOGAND(p0, UN32(65535, 0))
    IN  sh_il_set_pure_param(op, 1, LOGOR(upper_word, LOGOR(new_upper_byte, new_lower_byte)), pc)

\* the word form: the two words exchanged
sh_il_swap_w(op, pc, p0) ==
    LET high == SHIFTL0(p0, SH_U_REG(BITS_PER_BYTE * 2))
        low == SHIFTR0(p0, SH_U_REG(BITS_PER_BYTE * 2))
    IN  sh_il_set_pure_param(op, 1, LOGOR(high, low), pc)

sh_il_swap(op, pc) ==
    IF op.scaling = "SH_SCALING_B" THEN sh_il_swap_b(op, pc, sh_il_get_pure_param(op, 0, pc))
    ELSE IF op.scaling = "SH_SCALING_W" THEN sh_il_swap_w(op, pc, sh_il_get_pure_param(op, 0, pc))
    ELSE NULL

(***************************************************************************)
(* sh_il.c: branches, calls and the return.                                *)
(***************************************************************************)
sh_il_get_effective_addr_param(op, x, pc) ==
    sh_il_get_effective_addr_pc(op.param[x + 1], op.scaling, pc)

sh_il_bf(op, pc) ==
    BRANCH(IS_ZERO(sh_il_get_status_reg_bit(SH_SR_T)),
           JMP(sh_il_get_effective_addr_param(op, 0, pc)), NOP)

sh_il_bra(op, pc) == JMP(sh_il_get_effective_addr_param(op, 0, pc))

sh_il_bsr(op, pc) ==
    SEQ2(SETG("pr", Const32(pc)), JMP(sh_il_get_effective_addr_param(op, 0, pc)))

sh_il_bsrf(op, pc) ==
    SEQ2(SETG("pr", Const32(pc)), JMP(sh_il_get_effective_addr_param(op, 0, pc)))

sh_il_jsr(op, pc) ==
    SEQ2(SETG("pr", ADD(Const32(pc), SH_U_ADDR(4))), JMP(sh_il_get_effective_addr_param(op, 0, pc)))

sh_il_rts(op, pc) == JMP(VARG("pr"))

\* sh_ops and rz_sh_il_opcode: aop->il_op and the VM after the call
rz_sh_il_opcode(op, pc, v) ==
    CASE op.mnemonic = "SH_OP_LDC" -> sh_il_ldc(op, pc, v)
      [] op.mnemonic = "SH_OP_RTE" -> sh_il_rte(op, pc, v)
      [] op.mnemonic = "SH_OP_SETT" -> sh_il_sett(op, pc, v)
      [] op.mnemonic = "SH_OP_SLEEP" -> sh_il_sleep(op, pc, v)
      [] op.mnemonic = "SH_OP_STC" -> sh_il_stc(op, pc, v)
      [] op.mnemonic = "SH_OP_MOV" -> [il_op |-> sh_il_mov(op, pc), vm |-> v]
      [] op.mnemonic = "SH_OP_ADD" -> [il_op |-> sh_il_add(op, pc), vm |-> v]
      [] op.mnemonic = "SH_OP_MAC" -> [il_op |-> sh_il_mac(op, pc), vm |-> v]
      [] op.mnemonic = "SH_OP_CMP_EQ" -> [il_op |-> sh_il_cmp_eq(op, pc), vm |-> v]
      [] op.mnemonic = "SH_OP_SUB" -> [il_op |-> sh_il_sub(op, pc), vm |-> v]
      [] op.mnemonic = "SH_OP_SUBC" -> [il_op |-> sh_il_subc(op, pc), vm |-> v]
      [] op.mnemonic = "SH_OP_SUBV" -> [il_op |-> sh_il_subv(op, pc), vm |-> v]
      [] op.mnemonic = "SH_OP_ADDC" -> [il_op |-> sh_il_addc(op, pc), vm |-> v]
      [] op.mnemonic = "SH_OP_DT" -> [il_op |-> sh_il_dt(op, pc), vm |-> v]
      [] op.mnemonic = "SH_OP_SWAP" -> [il_op |-> sh_il_swap(op, pc), vm |-> v]
      [] op.mnemonic = "SH_OP_BF" -> [il_op |-> sh_il_bf(op, pc), vm |-> v]
      [] op.mnemonic = "SH_OP_BRA" -> [il_op |-> sh_il_bra(op, pc), vm |-> v]
      [] op.mnemonic = "SH_OP_BSR" -> [il_op |-> sh_il_bsr(op, pc), vm |-> v]
      [] op.mnemonic = "SH_OP_BSRF" -> [il_op |-> sh_il_bsrf(op, pc), vm |-> v]
      [] op.mnemonic = "SH_OP_JSR" -> [il_op |-> sh_il_jsr(op, pc), vm |-> v]
      [] op.mnemonic = "SH_OP_RTS" -> [il_op |-> sh_il_rts(op, pc), vm |-> v]

(***************************************************************************)
(* SpecPriv: one instruction is lifted twice against the VM of the         *)
(* analysis, which may execute a write between the two calls.              *)
(***************************************************************************)
\* the control registers and bank registers of the sampled LDC and STC
PrivRegs == {SH_REG_IND_GBR, SH_REG_IND_SR, SH_REG_IND_VBR, SH_REG_IND_SSR, SH_REG_IND_R0, SH_BANKED_REG_COUNT - 1}
\* their general register
PrivGprs == {SH_REG_IND_R0 + 1, SH_BANKED_REG_COUNT + 1}

RegIndirect(mode, r) == [mode |-> mode, param |-> <<r, 0>>]

PrivOps ==
    {[mnemonic |-> "SH_OP_LDC", param |-> <<RegDirect(m), RegDirect(c)>>, scaling |-> "SH_SCALING_INVALID"] :
        m \in PrivGprs, c \in PrivRegs}
    \cup {[mnemonic |-> "SH_OP_LDC", param |-> <<RegIndirect("SH_REG_INDIRECT_I", m), RegDirect(c)>>, scaling |-> "SH_SCALING_L"] :
        m \in PrivGprs, c \in PrivRegs}
    \cup {[mnemonic |-> "SH_OP_STC", param |-> <<RegDirect(c), RegDirect(n)>>, scaling |-> "SH_SCALING_INVALID"] :
        n \in PrivGprs, c \in PrivRegs}
    \cup {[mnemonic |-> "SH_OP_STC", param |-> <<RegDirect(c), RegIndirect("SH_REG_INDIRECT_D", n)>>, scaling |-> "SH_SCALING_L"] :
        n \in PrivGprs, c \in PrivRegs}
    \cup {[mnemonic |-> mn, param |-> <<NoParam, NoParam>>, scaling |-> "SH_SCALING_INVALID"] :
        mn \in {"SH_OP_RTE", "SH_OP_SLEEP", "SH_OP_SETT"}}

InitPriv ==
    /\ \E md \in BOOLEAN : vm = [VM0 EXCEPT !.g[SH_SR_D] = Bool(md)]
    /\ reg = Reg0
    /\ inp \in [op : PrivOps, pc : {<<0, 0>>, <<0, 4>>}]
    /\ out = [fn |-> "none", lifts |-> <<>>]
    /\ step = 0

\* the VM without its event log
VMVars(v) == [v EXCEPT !.events = <<>>]

\* rz_sh_il_opcode on the VM of the analysis
Lift ==
    /\ Len(out.lifts) < 2
    /\ \E res \in {rz_sh_il_opcode(inp.op, inp.pc, vm)} :
          /\ vm' = res.vm
          /\ out' = [fn |-> "lift",
                     lifts |-> Append(out.lifts,
                        [il_op |-> res.il_op,
                         md |-> Truth(vm.g[SH_SR_D]),
                         kept |-> VMVars(res.vm) = VMVars(vm),
                         added |-> SubSeq(res.vm.events, Len(vm.events) + 1, Len(res.vm.events))])]
    /\ step' = step + 1
    /\ UNCHANGED <<reg, inp>>

\* the VM executes a write of the privilege bit and of a register
WriteVM ==
    /\ out.fn = "lift"
    /\ Len(out.lifts) = 1
    /\ \E md \in BOOLEAN, x \in 0..1 :
          vm' = [vm EXCEPT !.g[SH_SR_D] = Bool(md), !.g["r1"] = Bv(BvOfNat(SH_REG_SIZE, x))]
    /\ out' = [out EXCEPT !.fn = "write"]
    /\ step' = step + 1
    /\ UNCHANGED <<reg, inp>>

NextPriv == Lift \/ WriteVM

SpecPriv == InitPriv /\ [][NextPriv]_vars

\* the instructions that user mode may not execute
Privileged(op) ==
    \/ op.mnemonic \in {"SH_OP_RTE", "SH_OP_SLEEP"}
    \/ op.mnemonic = "SH_OP_LDC" /\ op.param[2].param[1] # SH_REG_IND_GBR
    \/ op.mnemonic = "SH_OP_STC" /\ op.param[1].param[1] # SH_REG_IND_GBR

\* C9 as stated: two lifts of one instruction at one address return the same
\* effect whatever the VM holds, and a lift changes no variable of the VM and
\* adds no event.
C9_LiftPure ==
    /\ \A k \in 1..Len(out.lifts) : out.lifts[k].kept /\ out.lifts[k].added = <<>>
    /\ Len(out.lifts) = 2 => out.lifts[1].il_op = out.lifts[2].il_op

\* C9: two lifts of one instruction at one address return the same effect when
\* the privilege bit of the VM is the same at both calls, and also when it
\* differs if the instruction is not privileged; a privileged instruction
\* lifted with the privilege bit 0 returns no effect; a lift changes no
\* variable of the VM, and it adds an event exactly when the instruction is
\* privileged and the privilege bit is 0.
C9_LiftPureButMode ==
    /\ \A k \in 1..Len(out.lifts) :
          /\ out.lifts[k].kept
          /\ out.lifts[k].added # <<>> <=> (Privileged(inp.op) /\ ~out.lifts[k].md)
          /\ (Privileged(inp.op) /\ ~out.lifts[k].md) => IsNull(out.lifts[k].il_op)
    /\ (Len(out.lifts) = 2 /\ (out.lifts[1].md = out.lifts[2].md \/ ~Privileged(inp.op))) =>
          out.lifts[1].il_op = out.lifts[2].il_op

\* two lifts in privileged mode, the register r1 written between them, return
\* one effect, and a third instruction faults twice in user mode
C9_Witness ==
    /\ Len(out.lifts) = 2
    /\ out.lifts[1].md = out.lifts[2].md
    /\ vm.g["r1"] # VM0.g["r1"]
    /\ \/ out.lifts[1].md /\ Privileged(inp.op) /\ ~IsNull(out.lifts[1].il_op)
       \/ ~out.lifts[1].md /\ Len(vm.events) = 2

\* C10 as stated: a privileged instruction lifted with the privilege bit 0 adds
\* exactly one RESINST event and returns no effect; LDC and STC on GBR in
\* either mode, and every one of the instructions with the privilege bit 1,
\* add no event and return an effect.
C10_PrivilegeFault ==
    \A k \in 1..Len(out.lifts) :
        inp.op.mnemonic \in {"SH_OP_LDC", "SH_OP_STC", "SH_OP_RTE", "SH_OP_SLEEP"} =>
            IF Privileged(inp.op) /\ ~out.lifts[k].md
            THEN out.lifts[k].added = <<RESINST>> /\ IsNull(out.lifts[k].il_op)
            ELSE out.lifts[k].added = <<>> /\ ~IsNull(out.lifts[k].il_op)

\* the same, with an effect promised only to RTE, SLEEP and the LDC and STC of
\* a bank register
C10_FaultOnly ==
    \A k \in 1..Len(out.lifts) :
        inp.op.mnemonic \in {"SH_OP_LDC", "SH_OP_STC", "SH_OP_RTE", "SH_OP_SLEEP"} =>
            IF Privileged(inp.op) /\ ~out.lifts[k].md
            THEN out.lifts[k].added = <<RESINST>> /\ IsNull(out.lifts[k].il_op)
            ELSE /\ out.lifts[k].added = <<>>
                 /\ (inp.op.mnemonic \in {"SH_OP_RTE", "SH_OP_SLEEP"}
                     \/ sh_banked_reg(inp.op.param[IF inp.op.mnemonic = "SH_OP_LDC" THEN 2 ELSE 1].param[1]))
                        => ~IsNull(out.lifts[k].il_op)

(***************************************************************************)
(* Ownership of the nodes.  The op builder allocates one node per call and *)
(* a C variable holds a pointer to it.  Here the heap h is the sequence of *)
(* the nodes allocated, a node being the tuple of the tree with the        *)
(* indices of its operands in the place of the operands; 0 is NULL.  A     *)
(* function body is a sequence of steps <<variable, expression>>, the      *)
(* expression built by the constructors above over Ref(variable) leaves;   *)
(* a step <<variable, expression, test>> is under if (!test).  Every       *)
(* operand of a call is built, also when the constructor then returns NULL *)
(* for a NULL operand.                                                     *)
(***************************************************************************)
Ref(name) == <<"REF", name>>

\* the positions of the operands in a node
ChildPos(k) ==
    CASE k \in {"BV", "B", "VARG", "VARL", "REF", "NOP", "EMPTY", "NULL"} -> <<>>
      [] k \in {"UNSIGNED", "SIGNED", "SETG", "SETL", "LOADW"} -> <<3>>
      [] k \in {"ITE", "BRANCH"} -> <<2, 3, 4>>
      [] k \in {"MSB", "LSB", "INV", "LOGNOT", "IS_ZERO", "DUP", "JMP"} -> <<2>>
      [] OTHER -> <<2, 3>>

RECURSIVE rz_il_op_pure_dup(_, _)
RECURSIVE OwnDupKids(_, _, _, _)
\* rz_il_op_pure_dup: a copy of the node and of everything below it
rz_il_op_pure_dup(h, id) ==
    IF id = 0 THEN [h |-> h, id |-> 0]
    ELSE LET r == OwnDupKids(h, h[id], ChildPos(h[id][1]), 1)
         IN  [h |-> Append(r.h, r.node), id |-> Len(r.h) + 1]

OwnDupKids(h, node, pos, i) ==
    IF i > Len(pos) THEN [h |-> h, node |-> node]
    ELSE LET c == rz_il_op_pure_dup(h, node[pos[i]])
         IN  IF c.id > Len(c.h) THEN [h |-> h, node |-> node]
             ELSE OwnDupKids(c.h, [node EXCEPT ![pos[i]] = c.id], pos, i + 1)

RECURSIVE OwnNew(_, _, _)
RECURSIVE OwnNewKids(_, _, _, _, _)
\* the node an expression allocates: its operands first, then the node itself
\* unless an operand is NULL; a Ref is the pointer the variable holds
OwnNew(h, env, t) ==
    CASE t[1] = "REF" -> [h |-> h, id |-> env[t[2]]]
      [] t[1] = "NULL" -> [h |-> h, id |-> 0]
      [] t[1] = "DUP" -> LET a == OwnNew(h, env, t[2]) IN rz_il_op_pure_dup(a.h, a.id)
      [] OTHER ->
            LET r == OwnNewKids(h, env, t, ChildPos(t[1]), 1)
            IN  IF \E i \in 1..Len(ChildPos(t[1])) : r.node[ChildPos(t[1])[i]] = 0
                THEN [h |-> r.h, id |-> 0]
                ELSE [h |-> Append(r.h, r.node), id |-> Len(r.h) + 1]

OwnNewKids(h, env, node, pos, i) ==
    IF i > Len(pos) THEN [h |-> h, node |-> node]
    ELSE LET c == OwnNew(h, env, node[pos[i]])
         IN  IF c.id > Len(c.h) THEN [h |-> h, node |-> node]
             ELSE OwnNewKids(c.h, env, [node EXCEPT ![pos[i]] = c.id], pos, i + 1)

\* the variables of the bodies below
OwnVars ==
    {"res", "x", "y", "xmsb", "ymsb", "resmsb", "xy", "nres", "ry", "xr", "or",
     "nx", "nxy", "rny", "rnx", "nrxy", "rnxny", "nrxny", "rnxy",
     "sum", "sub", "ret", "tbit", "root", "pure", "eff_addr", "signed"}

\* RZ_FREE(variable): the node is freed and the variable set to NULL
RZ_FREE(name) == <<"RZ_FREE", name>>

RECURSIVE OwnRun(_, _, _)
\* the steps in order: st is [h, env, freed], freed the nodes given to free
OwnRun(steps, i, st) ==
    IF i > Len(steps) THEN st
    ELSE IF Len(steps[i]) = 3 /\ st.env[steps[i][3]] # 0 THEN OwnRun(steps, i + 1, st)
    ELSE IF steps[i][2][1] = "RZ_FREE"
         THEN OwnRun(steps, i + 1,
                     [st EXCEPT !.freed = @ \cup ({st.env[steps[i][1]]} \ {0}),
                                !.env[steps[i][1]] = 0])
    ELSE LET a == OwnNew(st.h, st.env, steps[i][2])
         IN  IF a.id > Len(a.h) THEN st
             ELSE OwnRun(steps, i + 1,
                         [st EXCEPT !.h = a.h, !.env[steps[i][1]] = a.id])

OwnBuild(steps) == OwnRun(steps, 1, [h |-> <<>>, env |-> [v \in OwnVars |-> 0], freed |-> {}])

\* the parents of a node: the pairs of a node and an operand position that
\* point to it
OwnParents(h, id) ==
    {<<n, i>> \in (1..Len(h)) \X (2..4) :
        \E j \in 1..Len(ChildPos(h[n][1])) : ChildPos(h[n][1])[j] = i /\ h[n][i] = id}

RECURSIVE OwnTree(_, _)
RECURSIVE OwnTreeKids(_, _, _, _)
\* the tree below a node
OwnTree(h, id) ==
    IF id = 0 THEN NULL ELSE OwnTreeKids(h, h[id], ChildPos(h[id][1]), 1)

OwnTreeKids(h, node, pos, i) ==
    IF i > Len(pos) THEN node
    ELSE OwnTreeKids(h, [node EXCEPT ![pos[i]] = OwnTree(h, node[pos[i]])], pos, i + 1)

RECURSIVE StripDup(_)
RECURSIVE StripDupKids(_, _, _)
\* a tree with its DUP nodes replaced by what they copy
StripDup(t) ==
    IF t[1] = "DUP" THEN StripDup(t[2]) ELSE StripDupKids(t, ChildPos(t[1]), 1)

StripDupKids(node, pos, i) ==
    IF i > Len(pos) THEN node
    ELSE StripDupKids([node EXCEPT ![pos[i]] = StripDup(node[pos[i]])], pos, i + 1)

\* the bodies of the flag synthesizers; res, x and y hold the arguments
sh_il_is_add_carry_steps ==
    << <<"xmsb", MSB(Ref("x"))>>,
       <<"ymsb", MSB(Ref("y"))>>,
       <<"resmsb", MSB(Ref("res"))>>,
       <<"xy", AND(Ref("xmsb"), Ref("ymsb"))>>,
       <<"nres", INV(Ref("resmsb"))>>,
       <<"ry", AND(Ref("nres"), DUP(Ref("ymsb")))>>,
       <<"xr", AND(DUP(Ref("xmsb")), Ref("nres"))>>,
       <<"or", OR(Ref("xy"), Ref("ry"))>>,
       <<"or", OR(Ref("or"), Ref("xr"))>> >>

sh_il_is_sub_borrow_steps ==
    << <<"xmsb", MSB(Ref("x"))>>,
       <<"ymsb", MSB(Ref("y"))>>,
       <<"resmsb", MSB(Ref("res"))>>,
       <<"nx", INV(Ref("xmsb"))>>,
       <<"nxy", AND(Ref("nx"), Ref("ymsb"))>>,
       <<"rny", AND(DUP(Ref("ymsb")), Ref("resmsb"))>>,
       <<"rnx", AND(DUP(Ref("resmsb")), Ref("nx"))>>,
       <<"or", OR(Ref("nxy"), Ref("rny"))>>,
       <<"or", OR(Ref("or"), Ref("rnx"))>> >>

sh_il_is_add_overflow_steps ==
    << <<"xmsb", MSB(Ref("x"))>>,
       <<"ymsb", MSB(Ref("y"))>>,
       <<"resmsb", MSB(Ref("res"))>>,
       <<"nrxy", AND(AND(INV(Ref("resmsb")), Ref("xmsb")), Ref("ymsb"))>>,
       <<"rnxny", AND(AND(DUP(Ref("resmsb")), INV(DUP(Ref("xmsb")))), INV(DUP(Ref("ymsb"))))>>,
       <<"or", OR(Ref("nrxy"), Ref("rnxny"))>> >>

sh_il_is_sub_underflow_steps ==
    << <<"xmsb", MSB(Ref("x"))>>,
       <<"ymsb", MSB(Ref("y"))>>,
       <<"resmsb", MSB(Ref("res"))>>,
       <<"nrxny", AND(AND(INV(Ref("resmsb")), Ref("xmsb")), INV(Ref("ymsb")))>>,
       <<"rnxy", AND(AND(DUP(Ref("resmsb")), INV(DUP(Ref("xmsb")))), DUP(Ref("ymsb")))>>,
       <<"or", OR(Ref("nrxny"), Ref("rnxy"))>> >>

\* a call of a synthesizer on three expressions
OwnCall(res, x, y, steps) == << <<"res", res>>, <<"x", x>>, <<"y", y>> >> \o steps

\* the body of sh_il_set_param_pc for a register-direct operand, val being
\* the pointer it is given: the switch sets ret; under if (!ret) the operand
\* is read, the value read is freed, and the store is built on the effective
\* address; the operand has no pre and no post effect, so sh_apply_effects
\* returns ret.  For a byte or a word SIGNED(SH_REG_SIZE, val) is built once,
\* before sh_il_set_reg is called with it
sh_il_set_param_steps(param, val, scaling, pc) ==
    (IF scaling \in {"SH_SCALING_INVALID", "SH_SCALING_L"} THEN <<>>
     ELSE << <<"signed", <<"SIGNED", SH_REG_SIZE, val>> >> >>)
    \o
    << <<"ret", sh_il_set_reg(param.param[1],
                              IF scaling \in {"SH_SCALING_INVALID", "SH_SCALING_L"}
                              THEN val ELSE Ref("signed"))>>,
       <<"pure", sh_il_get_param_pc(param, scaling, pc).pure, "ret">>,
       <<"pure", RZ_FREE("pure"), "ret">>,
       <<"eff_addr", sh_il_get_effective_addr_pc(param, scaling, pc), "ret">>,
       <<"ret", <<"STOREW", Ref("eff_addr"), val>>, "ret">> >>

\* the body of sh_il_addc, p0 and p1 being sh_il_get_pure_param(0) and (1)
sh_il_addc_steps(op, pc, p0, p1) ==
    << <<"sum", <<"ADD", p0, p1>> >>,
       <<"sum", <<"ADD", Ref("sum"), <<"UNSIGNED", SH_REG_SIZE, sh_il_get_status_reg_bit(SH_SR_T)>> >> >> >>
    \o sh_il_set_param_steps(op.param[2], Ref("sum"), op.scaling, pc)
    \o OwnCall(DUP(Ref("sum")), p0, p1, sh_il_is_add_carry_steps)
    \o << <<"tbit", SETG(SH_SR_T, Ref("or"))>>,
          <<"root", SEQ2(Ref("ret"), Ref("tbit"))>> >>

\* the body of sh_il_negc; the 0 given to UNSIGNED for its operand is NULL
sh_il_negc_steps(op, pc, p0) ==
    << <<"sub", <<"SUB", <<"UNSIGNED", SH_REG_SIZE, NULL>>, p0>> >>,
       <<"sub", <<"SUB", Ref("sub"), <<"UNSIGNED", SH_REG_SIZE, sh_il_get_status_reg_bit(SH_SR_T)>> >> >> >>
    \o sh_il_set_param_steps(op.param[2], Ref("sub"), op.scaling, pc)
    \o OwnCall(Ref("sub"), <<"UNSIGNED", SH_REG_SIZE, NULL>>, p0, sh_il_is_sub_borrow_steps)
    \o << <<"tbit", SETG(SH_SR_T, Ref("or"))>>,
          <<"root", SEQ2(Ref("ret"), Ref("tbit"))>> >>

(***************************************************************************)
(* SpecOwn: the tree of a synthesizer or of a generator is built on an     *)
(* empty heap, for the operands Rm, Rn.                                    *)
(***************************************************************************)
OwnFns == {"sh_il_is_add_carry", "sh_il_is_sub_borrow", "sh_il_is_add_overflow",
           "sh_il_is_sub_underflow", "sh_il_addc", "sh_il_negc"}

OwnOp(m, n) ==
    [mnemonic |-> "SH_OP_ADDC", param |-> <<RegDirect(m), RegDirect(n)>>,
     scaling |-> "SH_SCALING_INVALID"]

OwnSynth(fn) ==
    CASE fn = "sh_il_is_add_carry" -> sh_il_is_add_carry_steps
      [] fn = "sh_il_is_sub_borrow" -> sh_il_is_sub_borrow_steps
      [] fn = "sh_il_is_add_overflow" -> sh_il_is_add_overflow_steps
      [] fn = "sh_il_is_sub_underflow" -> sh_il_is_sub_underflow_steps

OwnStepsOf(fn, op, pc, p0, p1) ==
    CASE fn = "sh_il_addc" -> sh_il_addc_steps(op, pc, p0, p1)
      [] fn = "sh_il_negc" -> sh_il_negc_steps(op, pc, p0)
      [] OTHER -> OwnCall(ADD(p0, p1), p0, p1, OwnSynth(fn)) \o << <<"root", Ref("or")>> >>

OwnSteps(fn, op, pc) ==
    OwnStepsOf(fn, op, pc, sh_il_get_pure_param(op, 0, pc), sh_il_get_pure_param(op, 1, pc))

InitOwn ==
    /\ vm = VM0
    /\ reg = Reg0
    /\ inp \in [fn : OwnFns, m : 0..(SH_GPR_COUNT - 1), n : 0..(SH_GPR_COUNT - 1)]
    /\ out = NoOut
    /\ step = 0

BuildTree ==
    /\ step = 0
    /\ LET st == OwnBuild(OwnSteps(inp.fn, OwnOp(inp.m, inp.n), <<0, 0>>)) IN
          out' = [fn |-> "build", h |-> st.h, root |-> st.env["root"], freed |-> st.freed]
    /\ step' = 1
    /\ UNCHANGED <<vm, reg, inp>>

NextOwn == BuildTree

SpecOwn == InitOwn /\ [][NextOwn]_vars

\* the nodes with more than one parent
OwnShared == {id \in 1..Len(out.h) : Cardinality(OwnParents(out.h, id)) > 1}

\* C11: no node of a built tree has two parents.
C11_SingleParent == out.fn = "build" => OwnShared = {}

\* the trees of the overflow and underflow synthesizers have no shared node,
\* and those of the carry and borrow synthesizers share exactly one node, the
\* negated sign bit
C11_SharedNegation ==
    out.fn = "build" =>
        CASE inp.fn \in {"sh_il_is_add_overflow", "sh_il_is_sub_underflow"} -> OwnShared = {}
          [] inp.fn \in {"sh_il_is_add_carry", "sh_il_is_sub_borrow", "sh_il_addc"} ->
                /\ Cardinality(OwnShared) = 1
                /\ \A id \in OwnShared : out.h[id][1] = "INV"
          [] inp.fn = "sh_il_negc" -> out.root = 0

\* the tree below the root of a synthesizer is the tree of its expression
C11_SameTree ==
    (out.fn = "build" /\ inp.fn = "sh_il_is_add_carry") =>
        OwnTree(out.h, out.root)
            = StripDup(sh_il_is_add_carry(
                ADD(sh_il_get_reg(inp.m), sh_il_get_reg(inp.n)), sh_il_get_reg(inp.m), sh_il_get_reg(inp.n)))

(***************************************************************************)
(* The VM runs an effect one node at a time (rz_il_evaluate_effect): a     *)
(* sequence hands over its two parts, a branch its selected arm, any other *)
(* node is executed.  run is [todo, log]: the nodes still to run and the   *)
(* writes done, each [kind, to, val].                                      *)
(***************************************************************************)
LogOf(e, st) ==
    [kind |-> e[1],
     to |-> IF e[1] = "STOREW" THEN EvalPure(e[2], st) ELSE e[2],
     val |-> EvalPure(e[3], st)]

EffectStep(run, st) ==
    LET e == Head(run.todo)
        rest == Tail(run.todo)
    IN  CASE e[1] = "SEQ" -> [run |-> [run EXCEPT !.todo = <<e[2], e[3]>> \o rest], st |-> st]
          [] e[1] = "BRANCH" ->
                [run |-> [run EXCEPT !.todo = <<BranchArm(e, EvalPure(e[2], st))>> \o rest], st |-> st]
          [] e[1] \in {"SETG", "STOREW"} ->
                [run |-> [todo |-> rest, log |-> Append(run.log, LogOf(e, st))],
                 st |-> ExecEffect(e, st)]
          [] OTHER -> [run |-> [run EXCEPT !.todo = rest], st |-> ExecEffect(e, st)]

\* the variable that holds general register r in the VM st
GprVar(r, st) ==
    IF sh_banked_reg(r) /\ Truth(st.g[SH_SR_D]) /\ Truth(st.g[SH_SR_R])
    THEN sh_get_banked_reg(r, 1)
    ELSE sh_registers[r + 1]

Gpr(r, st) == st.g[GprVar(r, st)].b

(***************************************************************************)
(* SpecMov: MOV.B/W/L Rm,@-Rn and MOV.B/W/L @Rm+,Rn are lifted and run on  *)
(* a VM whose registers m and n hold inp.vm and inp.vn and whose memory    *)
(* holds a different byte at each address around them.                     *)
(***************************************************************************)
MovRegs == {SH_REG_IND_R0 + 1, SH_REG_IND_R0 + 2, SH_BANKED_REG_COUNT + 1}
MovScalings == {"SH_SCALING_B", "SH_SCALING_W", "SH_SCALING_L"}
\* register values: 0 and 2 (the decrement wraps), 0x0001fffe, 0x80818283
MovVals == {<<0, 0>>, <<0, 2>>, <<1, 65534>>, <<32897, 33411>>}

MovOp(i) ==
    [mnemonic |-> "SH_OP_MOV", scaling |-> i.scaling,
     param |-> IF i.kind = "store"
               THEN <<RegDirect(i.m), [mode |-> "SH_REG_INDIRECT_D", param |-> <<i.n, 0>>]>>
               ELSE <<[mode |-> "SH_REG_INDIRECT_I", param |-> <<i.m, 0>>], RegDirect(i.n)>>]

\* the bytes 0x71, 0x22, 0x93, 0x44, ... at the eight addresses from a - 4 on
MovMem(a) ==
    [k \in 1..8 |-> <<BvOfHalves(AddHalves(SubHalves(a, <<0, 4>>), <<0, k - 1>>)),
                      BvOfNat(BITS_PER_BYTE, 17 * k + (IF k % 2 = 1 THEN 96 ELSE 0))>>] \o <<>>

MovBank(g, b) == [g EXCEPT ![SH_SR_D] = Bool(b), ![SH_SR_R] = Bool(b)]

MovVM(i) ==
    LET g0 == MovBank(VM0.g, i.bank)
        st0 == [VM0 EXCEPT !.g = g0]
        g1 == [g0 EXCEPT ![GprVar(i.m, st0)] = Bv(BvOfHalves(i.vm))]
        g2 == [g1 EXCEPT ![GprVar(i.n, st0)] = Bv(BvOfHalves(i.vn))]
    IN  WithMem([VM0 EXCEPT !.g = g2],
                MovMem(IF i.kind = "store" THEN i.vn ELSE (IF i.m = i.n THEN i.vn ELSE i.vm)),
                i.big_endian)

InitMov ==
    /\ inp \in [kind : {"store", "load"}, scaling : MovScalings, m : MovRegs, n : MovRegs,
                vm : MovVals, vn : MovVals, bank : BOOLEAN, big_endian : BOOLEAN]
    /\ vm = MovVM(inp)
    /\ reg = Reg0
    /\ out = NoOut
    /\ step = 0

LiftMov ==
    /\ step = 0
    /\ LET r == rz_sh_il_opcode(MovOp(inp), <<0, 0>>, vm) IN
          out' = [fn |-> "lift", il_op |-> r.il_op, todo |-> <<r.il_op>>, log |-> <<>>]
    /\ step' = 1
    /\ UNCHANGED <<vm, reg, inp>>

StepMov ==
    /\ step = 1
    /\ out.todo # <<>>
    /\ vm.ok
    /\ LET r == EffectStep([todo |-> out.todo, log |-> out.log], vm) IN
          /\ out' = [out EXCEPT !.todo = r.run.todo, !.log = r.run.log]
          /\ vm' = r.st
    /\ UNCHANGED <<reg, inp, step>>

DoneMov ==
    /\ step = 1
    /\ out.todo = <<>> \/ ~vm.ok
    /\ step' = 2
    /\ UNCHANGED <<vm, reg, inp, out>>

NextMov == LiftMov \/ StepMov \/ DoneMov

SpecMov == InitMov /\ [][NextMov]_vars

\* the width of the access in bytes, as a pair of halves
MovWidth == <<0, sh_scaling_size(inp.scaling)>>
MovBits == BITS_PER_BYTE * sh_scaling_size(inp.scaling)
\* Rn - width and Rm + width of the values before the instruction
MovDec == BvOfHalves(SubHalves(inp.vn, MovWidth))
MovInc == BvOfHalves(AddHalves(inp.vm, MovWidth))
\* the value register m holds when MOV Rm,@-Rn stores it
MovSrc == IF inp.m = inp.n THEN MovDec ELSE BvOfHalves(inp.vm)
\* the word at the old Rm in the memory before the instruction, sign-extended
MovLoaded ==
    LET w == MemLoad(MovVM(inp), BvOfHalves(inp.vm), MovBits)
    IN  BvCast(SH_REG_SIZE, BvMsb(w), w)

MovStoreOrder ==
    /\ out.log = << [kind |-> "SETG", to |-> GprVar(inp.n, vm), val |-> Bv(MovDec)],
                    [kind |-> "STOREW", to |-> Bv(MovDec), val |-> Bv(SubSeq(MovSrc, 1, MovBits))] >>
    /\ Gpr(inp.n, vm) = MovDec
    /\ MemLoad(vm, MovDec, MovBits) = SubSeq(MovSrc, 1, MovBits)
    /\ \A k \in 1..8 :
          LET a == MovMem(inp.vn)[k][1] IN
          (\A j \in 0..(sh_scaling_size(inp.scaling) - 1) : a # BvAdd(MovDec, BvOfNat(SH_ADDR_SIZE, j)))
              => MemByte(vm.mem, a) = MovMem(inp.vn)[k][2]

MovLoadOrder ==
    /\ out.log = << [kind |-> "SETG", to |-> GprVar(inp.n, vm), val |-> Bv(MovLoaded)],
                    [kind |-> "SETG", to |-> GprVar(inp.m, vm), val |-> Bv(MovInc)] >>
    /\ Gpr(inp.n, vm) = MovLoaded
    /\ Gpr(inp.m, vm) = MovInc
    /\ vm.mem = MovVM(inp).mem

\* C12: MOV Rm,@-Rn first writes Rn - width to Rn and then stores Rm at the
\* decremented address; MOV @Rm+,Rn with m # n first writes the word loaded
\* from the old Rm to Rn and then writes Rm + width to Rm.
C12_MovOrdering ==
    step = 2 =>
        /\ vm.ok
        /\ inp.kind = "store" => MovStoreOrder
        /\ (inp.kind = "load" /\ inp.m # inp.n) => MovLoadOrder

\* a word store through a register that held 2 has run: the register is 0
\* and the memory has changed
C12_Witness ==
    /\ step = 2
    /\ inp.kind = "store"
    /\ inp.scaling = "SH_SCALING_W"
    /\ inp.m # inp.n
    /\ inp.vn = <<0, 2>>
    /\ Gpr(inp.n, vm) = BvZero(SH_REG_SIZE)
    /\ vm.mem # MovVM(inp).mem

(***************************************************************************)
(* SpecSet: sh_il_set_param_pc is called for an operand of every           *)
(* addressing mode, and the effect it returns, if any, is run.             *)
(***************************************************************************)
\* disassembler.h: SHAddrMode, and a number outside of it
SetModes ==
    {"SH_ADDR_INVALID", "SH_REG_DIRECT", "SH_IMM_U", "SH_IMM_S", "SH_ADDR_OTHER"} \cup MemoryModes
SetScalings == {"SH_SCALING_INVALID", "SH_SCALING_B", "SH_SCALING_W", "SH_SCALING_L"}
\* the first number of the operand: a register, banked or not, or a displacement
SetNumbers == {SH_REG_IND_R0 + 1, SH_BANKED_REG_COUNT + 1}

SetParam(i) == [mode |-> i.mode, param |-> <<i.p0, 1>>]
\* the value to write: 0x00010002 of the size of the access
SetVal(i) ==
    IF i.scaling \in {"SH_SCALING_INVALID", "SH_SCALING_L"} THEN UN32(1, 2)
    ELSE UN(BITS_PER_BYTE * sh_scaling_size(i.scaling), 2)

SetVM(i) == WithMem([VM0 EXCEPT !.g = MovBank(VM0.g, i.bank)], MovMem(<<0, 4>>), i.big_endian)

InitSet ==
    /\ inp \in [mode : SetModes, scaling : SetScalings, p0 : SetNumbers,
                bank : BOOLEAN, big_endian : BOOLEAN]
    /\ vm = SetVM(inp)
    /\ reg = Reg0
    /\ out = NoOut
    /\ step = 0

CallSetParam ==
    /\ step = 0
    /\ out' = [fn |-> "set_param",
               il |-> sh_il_set_param_pc(SetParam(inp), SetVal(inp), inp.scaling, <<0, 16>>)]
    /\ step' = 1
    /\ UNCHANGED <<vm, reg, inp>>

\* an absent effect is not run
RunSetParam ==
    /\ step = 1
    /\ vm' = IF IsNull(out.il) THEN vm ELSE ExecEffect(out.il, vm)
    /\ step' = 2
    /\ UNCHANGED <<reg, inp, out>>

NextSet == CallSetParam \/ RunSetParam

SpecSet == InitSet /\ [][NextSet]_vars

\* C13: for an immediate operand (unsigned or signed) and for an unknown
\* addressing mode sh_il_set_param_pc returns no effect: no register and no
\* byte of memory is written.
C13_SetParamAbsent ==
    (step >= 1 /\ inp.mode \notin ({"SH_REG_DIRECT"} \cup MemoryModes)) =>
        /\ IsNull(out.il)
        /\ vm = SetVM(inp)

\* the call for a signed immediate has returned and the VM has gone on
C13_Witness == step = 2 /\ inp.mode = "SH_IMM_S" /\ IsNull(out.il)

\* for a register or a memory operand the effect is there and writes
C13_OthersWrite ==
    (step = 2 /\ inp.mode \in ({"SH_REG_DIRECT"} \cup MemoryModes)
            /\ inp.scaling # "SH_SCALING_INVALID") =>
        /\ ~IsNull(out.il)
        /\ vm.ok
        /\ vm # SetVM(inp)

(***************************************************************************)
(* sh_il.c: rz_il_reg_binding_exactly and rz_il_vm_sync_from_reg.          *)
(***************************************************************************)
\* no binding (NULL), and a binding of the entries regs
NoBinding == [ok |-> FALSE, regs |-> <<>>]

RECURSIVE rz_il_reg_binding_exactly_Skip(_, _, _, _)
\* the loop with a name that is no register left out, for the mutant
rz_il_reg_binding_exactly_Skip(r, regs, i, acc) ==
    IF i > Len(regs) THEN [ok |-> TRUE, regs |-> acc]
    ELSE IF rz_reg_get(r, regs[i]) = NoItem
         THEN rz_il_reg_binding_exactly_Skip(r, regs, i + 1, acc)
    ELSE rz_il_reg_binding_exactly_Skip(r, regs, i + 1,
            Append(acc, [name |-> regs[i], size |-> rz_reg_get(r, regs[i]).size]))

RECURSIVE rz_il_reg_binding_exactly_from(_, _, _, _)
\* the loop over the names: acc holds the entries made so far
rz_il_reg_binding_exactly_from(r, regs, i, acc) ==
    IF i > Len(regs) THEN [ok |-> TRUE, regs |-> acc]
    ELSE IF rz_reg_get(r, regs[i]) = NoItem THEN NoBinding
    ELSE rz_il_reg_binding_exactly_from(r, regs, i + 1,
            Append(acc, [name |-> regs[i], size |-> rz_reg_get(r, regs[i]).size]))

rz_il_reg_binding_exactly(r, regs) == rz_il_reg_binding_exactly_from(r, regs, 1, <<>>)

\* rz_reg_get_bv: the bits of the item's place in its arena
rz_reg_get_bv(r, ri) == Bits([k \in 1..ri.size |-> r.arena[ri.type][ri.offset + k]])

\* rz_il_find_var_by_name
rz_il_find_var_by_name(v, name) == name \in DOMAIN v.g /\ v.g[name] # NoVal

\* the program counter part of rz_il_vm_sync_from_reg
sync_from_reg_pc(v, r) ==
    IF rz_reg_get_name_pc(r) = "" \/ rz_reg_get(r, rz_reg_get_name_pc(r)) = NoItem THEN v
    ELSE [v EXCEPT !.pc = sync_resized(rz_reg_get_bv(r, rz_reg_get(r, rz_reg_get_name_pc(r))), Len(v.pc))]

\* the vector read for one entry, its register ri found or not
sync_from_reg_read(r, item, ri) ==
    IF ri # NoItem THEN rz_reg_get_bv(r, ri) ELSE BvZero(item.size)

\* A vector of another width than the entry's is copied into a new one,
\* dupped, which is handed to rz_il_vm_fortify_bitv and rz_il_hash_bind and
\* then freed (rz_bv_free(dupped)): the variable is left on storage that has
\* been freed.  Freed(b) is such a variable, b the vector that was bound.
Freed(b) == [t |-> "freed", b |-> b]

\* the value bound to the variable of an entry for the vector bv read
sync_from_reg_val(bv, item) ==
    IF Len(bv) = item.size THEN Bv(bv) ELSE Freed(sync_resized(bv, item.size))

\* the loop with every variable of the VM written, for the mutant
sync_from_reg_item_All(v, r, item) ==
    [v EXCEPT !.g = [n \in DOMAIN v.g |->
        sync_from_reg_val(sync_from_reg_read(r, item, rz_reg_get(r, item.name)), item)]]

sync_from_reg_item(v, r, item) ==
    IF ~rz_il_find_var_by_name(v, item.name) THEN v
    ELSE [v EXCEPT !.g[item.name] =
            sync_from_reg_val(sync_from_reg_read(r, item, rz_reg_get(r, item.name)), item)]

RECURSIVE sync_from_reg_items(_, _, _)
sync_from_reg_items(v, r, i) ==
    IF i > Len(v.reg_binding) THEN v
    ELSE sync_from_reg_items(sync_from_reg_item(v, r, v.reg_binding[i]), r, i + 1)

sync_from_reg_bound(v, r) == IF ~v.bound THEN v ELSE sync_from_reg_items(v, r, 1)

rz_il_vm_sync_from_reg(v, r) == sync_from_reg_bound(sync_from_reg_pc(v, r), r)

\* What a read of freed storage gives is not defined.  It gives the vector
\* that was bound (kept: the value was copied when bound, or the memory has
\* not been used again), or any other vector b: a vector allocated later in
\* its place, or a vector of any length and contents.  A length above
\* MaxSize stands for every length that is no register's: the low bits are
\* copied and the push is not clean.  A read may also end the process.
FreedReads ==
    {[kept |-> TRUE, b |-> <<>>]}
    \cup {[kept |-> FALSE, b |-> Bits(b)] : b \in UNION {[1..n -> {0, 1}] : n \in 0..(MaxSize + 1)}}

\* the variables of bound entries that are on freed storage
FreedBound(v) ==
    {v.reg_binding[i].name : i \in {k \in 1..Len(v.reg_binding) :
        v.bound /\ rz_il_hash_find_val_by_name(v, v.reg_binding[k].name).t = "freed"}}

\* the variables on freed storage that rz_il_vm_sync_to_reg reads: those of
\* the entries whose register the profile has
FreedPushed(v, r) == {n \in FreedBound(v) : rz_reg_get(r, n) # NoItem}

\* the VM as rz_il_vm_sync_to_reg reads it: rd[n] is the read of variable n
FreedRead(v, rd) ==
    [v EXCEPT !.g = [n \in DOMAIN v.g |->
        IF n \notin DOMAIN rd THEN v.g[n]
        ELSE IF rd[n].kept THEN Bv(v.g[n].b) ELSE Bv(rd[n].b)]]

\* the variables that rz_il_vm_sync_from_reg binds
sync_from_reg_names(v) ==
    {v.reg_binding[i].name : i \in {k \in 1..Len(v.reg_binding) :
        v.bound /\ rz_il_find_var_by_name(v, v.reg_binding[k].name)}}

\* rz_il_hash_bind frees the value the variable held.  When that value is on
\* freed storage, the storage is freed a second time: the process ends, or
\* it goes on and a vector allocated in that place in between, the new
\* vector of any variable bound in this call, is freed with it.  d is the
\* set of variables this happens to.
FreedAgain(v, d) ==
    [v EXCEPT !.g = [n \in DOMAIN v.g |-> IF n \in d THEN Freed(v.g[n].b) ELSE v.g[n]]]

(***************************************************************************)
(* SpecHost: the host asks for bindings of given names and sets them up,   *)
(* loads another profile, and syncs the VM to and from the register file,  *)
(* MaxOps times in any order; a sync of a VM with a variable on freed      *)
(* storage may end the process instead.  out keeps the VM and the register *)
(* file of before the last operation.                                      *)
(***************************************************************************)
MaxOps == 4

HostNames == {"x", "y", "z"}
HostItem(name, o, sz) == [name |-> name, type |-> RegClasses[1], offset |-> o, size |-> sz]

\* x at offset 0; y missing, or a flag at offset 0 or 2, or three bits from
\* offset 2; z of two bits at offset 1 or 3; the program counter x, z, a
\* name without a register, or none
HostY == {<<>>, <<HostItem("y", 0, 1)>>, <<HostItem("y", 2, 1)>>, <<HostItem("y", 2, 3)>>}
HostItemsOf == {<<HostItem("x", 0, sx)>> \o y \o <<HostItem("z", oz, 2)>> : sx \in {1, 2}, y \in HostY, oz \in {1, 3}}
HostArenas ==
    {[ArenaZero EXCEPT ![RegClasses[1]] = Bits([k \in 1..Len(@) |-> 1])],
     [ArenaZero EXCEPT ![RegClasses[1]] = Bits([k \in 1..Len(@) |-> k % 2])]}
HostProfiles ==
    {[items |-> its, pc |-> pc, arena |-> ArenaZero] : its \in HostItemsOf, pc \in {"", "x", "z", "q"}}
\* the names a binding is asked for; w is no register of any profile
HostRequests == {<<>>, <<"x">>, <<"y", "x">>, <<"x", "w">>}

InitHost ==
    /\ \E pcbv \in {<<0, 1>>, <<1, 0, 1>>} :
          vm = [g |-> [n \in HostNames |-> IF n = "z" THEN Bv(<<1, 1>>) ELSE NoVal],
                l |-> <<>>, pc |-> pcbv, ok |-> TRUE,
                events |-> <<>>, reg_binding |-> <<>>, bound |-> FALSE]
    /\ \E p \in HostProfiles, a \in HostArenas : reg = [p EXCEPT !.arena = a]
    /\ inp = 0
    /\ out = NoOut
    /\ step = 0

\* rz_il_reg_binding_exactly, then rz_il_vm_setup_reg_binding if there is a binding
BindExactly ==
    /\ step < MaxOps
    /\ \E regs \in HostRequests :
          LET rb == rz_il_reg_binding_exactly(reg, regs) IN
          /\ vm' = IF rb.ok THEN rz_il_vm_setup_reg_binding(vm, rb.regs) ELSE vm
          /\ out' = [fn |-> "exactly", regs |-> regs, rb |-> rb, vm |-> vm, reg |-> reg]
    /\ step' = step + 1
    /\ UNCHANGED <<reg, inp>>

\* the host loads the profile without y, or with another size of x
HostLoad ==
    /\ step < MaxOps
    /\ \/ reg' = [reg EXCEPT !.items = SelectSeq(@, LAMBDA it : it.name # "y")]
       \/ reg' = [reg EXCEPT !.items[1].size = 3 - @]
    /\ out' = [fn |-> "profile", vm |-> vm, reg |-> reg]
    /\ step' = step + 1
    /\ UNCHANGED <<vm, inp>>

\* rz_il_vm_sync_to_reg that returns: rd is what it reads of the variables
\* on freed storage
HostToReg ==
    /\ step < MaxOps
    /\ \E rd \in [FreedPushed(vm, reg) -> FreedReads] :
          \E res \in {rz_il_vm_sync_to_reg(FreedRead(vm, rd), reg)} :
              /\ reg' = [reg EXCEPT !.arena = res.arena]
              /\ out' = [fn |-> "sync_to_reg", ret |-> res.perfect, writes |-> res.writes,
                         vm |-> vm, reg |-> reg]
    /\ step' = step + 1
    /\ UNCHANGED <<vm, inp>>

\* rz_il_vm_sync_from_reg that returns
HostFromReg ==
    /\ step < MaxOps
    /\ \E d \in SUBSET (IF FreedBound(vm) = {} THEN {} ELSE sync_from_reg_names(vm)) :
          vm' = FreedAgain(rz_il_vm_sync_from_reg(vm, reg), d)
    /\ out' = [fn |-> "sync_from_reg", vm |-> vm, reg |-> reg]
    /\ step' = step + 1
    /\ UNCHANGED <<reg, inp>>

\* a sync that reads or frees a variable on freed storage and ends the
\* process: no operation follows
HostAbort ==
    /\ step < MaxOps
    /\ FreedBound(vm) # {}
    /\ out' = [fn |-> "abort", vm |-> vm, reg |-> reg]
    /\ step' = MaxOps
    /\ UNCHANGED <<vm, reg, inp>>

NextHost == BindExactly \/ HostLoad \/ HostToReg \/ HostFromReg \/ HostAbort

SpecHost == InitHost /\ [][NextHost]_vars

\* C14: once a binding is set up in the VM, no operation changes it: a sync
\* leaves it alone and a later setup is rejected.
C14_BindingImmutable ==
    [][vm.bound => (vm'.bound /\ vm'.reg_binding = vm.reg_binding)]_vars

\* a binding other than the one of the VM has been made and its setup
\* rejected, after a pull that left a bound variable on freed storage
C14_Witness ==
    /\ out.fn = "exactly"
    /\ out.rb.ok
    /\ out.vm.bound
    /\ out.rb.regs # vm.reg_binding
    /\ FreedBound(vm) # {}

\* a VM with a variable on freed storage has been pushed and pulled, and
\* has its binding
C14_WitnessSync ==
    /\ out.fn \in {"sync_to_reg", "sync_from_reg"}
    /\ FreedBound(out.vm) # {}
    /\ vm.reg_binding = out.vm.reg_binding
    /\ Len(vm.reg_binding) = 2

\* the program-counter register of the register file before the last operation
HostPC == rz_reg_get(out.reg, rz_reg_get_name_pc(out.reg))

\* the registers of the binding in the register file before the last operation
HostBound ==
    IF ~out.vm.bound THEN {}
    ELSE {rz_reg_get(out.reg, out.vm.reg_binding[i].name) : i \in 1..Len(out.vm.reg_binding)} \ {NoItem}

\* the bits the push may write: those of the bound registers and of the
\* program counter
HostWritten == UNION {ItemBits(it) : it \in HostBound \cup ({HostPC} \ {NoItem})}

\* C15: after rz_il_vm_sync_to_reg the program-counter register holds the
\* VM's program counter, coerced to the register's width, and after
\* rz_il_vm_sync_from_reg the VM's program counter is the register's
\* contents, coerced to the counter's width, with or without a binding and
\* whatever the entries of the binding.
C15_PCIndependent ==
    (out.fn \in {"sync_to_reg", "sync_from_reg"} /\ HostPC # NoItem) =>
        /\ out.fn = "sync_to_reg" =>
              rz_reg_get_bv(reg, HostPC) = Coerced(vm.pc, HostPC.size)
        /\ out.fn = "sync_from_reg" =>
              vm.pc = Coerced(rz_reg_get_bv(reg, HostPC), Len(out.vm.pc))

\* the same where no bound register shares a bit with the program-counter
\* register, and the pull for every binding
C15_PCApart ==
    (out.fn \in {"sync_to_reg", "sync_from_reg"} /\ HostPC # NoItem) =>
        /\ (out.fn = "sync_to_reg" /\ \A b \in HostBound : ItemBits(b) \cap ItemBits(HostPC) = {}) =>
              rz_reg_get_bv(reg, HostPC) = Coerced(vm.pc, HostPC.size)
        /\ out.fn = "sync_from_reg" =>
              vm.pc = Coerced(rz_reg_get_bv(reg, HostPC), Len(out.vm.pc))

\* a VM whose binding names the program-counter register has been pushed:
\* the register holds the variable and not the program counter
C15_Bound ==
    /\ out.fn = "sync_to_reg"
    /\ vm.bound
    /\ HostPC \in HostBound
    /\ out.ret
    /\ rz_reg_get_bv(reg, HostPC) # Coerced(vm.pc, HostPC.size)
    /\ rz_reg_get_bv(reg, HostPC) = vm.g[HostPC.name].b

\* a VM with a binding of registers apart from the program-counter register
\* has been pushed: its three-bit program counter is in the narrower
\* register, whose contents have changed
C15_Apart ==
    /\ out.fn = "sync_to_reg"
    /\ vm.bound
    /\ HostBound # {}
    /\ HostPC # NoItem
    /\ \A b \in HostBound : ItemBits(b) \cap ItemBits(HostPC) = {}
    /\ HostPC.size < Len(vm.pc)
    /\ rz_reg_get_bv(reg, HostPC) # rz_reg_get_bv(out.reg, HostPC)
    /\ rz_reg_get_bv(reg, HostPC) = Coerced(vm.pc, HostPC.size)

\* a VM whose binding names the program-counter register has been loaded:
\* its program counter has changed
C15_From ==
    /\ out.fn = "sync_from_reg"
    /\ vm.bound
    /\ HostPC \in HostBound
    /\ vm.pc # out.vm.pc

\* C16: rz_il_vm_sync_to_reg changes no VM variable and no bit of a register
\* that is neither bound nor the program counter nor shares a bit with one
\* of them; rz_il_vm_sync_from_reg changes no register and no VM variable
\* that the binding does not name.
C16_SyncFrame ==
    /\ out.fn = "sync_to_reg" =>
          /\ vm = out.vm
          /\ reg.items = out.reg.items /\ reg.pc = out.reg.pc
          /\ \A k \in 1..Len(reg.items) :
                ItemBits(reg.items[k]) \cap HostWritten = {}
                    => rz_reg_get_bv(reg, reg.items[k]) = rz_reg_get_bv(out.reg, reg.items[k])
          /\ \A c \in DOMAIN reg.arena : \A k \in 1..Len(reg.arena[c]) :
                <<c, k - 1>> \notin HostWritten => reg.arena[c][k] = out.reg.arena[c][k]
    /\ out.fn = "sync_from_reg" =>
          /\ reg = out.reg
          /\ vm.reg_binding = out.vm.reg_binding
          /\ \A n \in DOMAIN vm.g :
                (\A i \in 1..Len(out.vm.reg_binding) : out.vm.reg_binding[i].name # n)
                    => vm.g[n] = out.vm.g[n]

\* a bound VM with a variable on freed storage has been pushed and has
\* changed the register file, which has a register with a bit set that is
\* neither bound nor the program counter nor shares a bit with them
C16_Witness ==
    /\ out.fn = "sync_to_reg"
    /\ vm.bound
    /\ FreedPushed(out.vm, out.reg) # {}
    /\ reg.arena # out.reg.arena
    /\ \E k \in 1..Len(reg.items) :
          /\ ItemBits(reg.items[k]) \cap HostWritten = {}
          /\ ~BvIsZero(rz_reg_get_bv(reg, reg.items[k]))

\* a bound VM with a variable on freed storage has been loaded and has left
\* another bound variable on freed storage, next to a variable that the
\* binding does not name
C16_WitnessFrom ==
    /\ out.fn = "sync_from_reg"
    /\ FreedBound(out.vm) # {}
    /\ \E n \in DOMAIN vm.g : vm.g[n].t = "freed" /\ out.vm.g[n].t = "bv"
    /\ vm.g["z"] = Bv(<<1, 1>>)

\* a sync has ended the process
C16_WitnessAbort == out.fn = "abort" /\ step = MaxOps /\ vm = out.vm /\ reg = out.reg

\* the names asked for are all registers of the profile
HostKnown == \A i \in 1..Len(out.regs) : rz_reg_get(out.reg, out.regs[i]) # NoItem

\* C17: rz_il_reg_binding_exactly returns a binding exactly if every name is
\* a register of the profile; the binding has one entry for each name, in
\* the order of the names, with the size of the register; else nothing is
\* returned.
C17_BindExactly ==
    out.fn = "exactly" =>
        /\ out.rb.ok <=> HostKnown
        /\ out.rb.ok =>
              /\ Len(out.rb.regs) = Len(out.regs)
              /\ \A i \in 1..Len(out.regs) :
                    /\ out.rb.regs[i].name = out.regs[i]
                    /\ \E k \in 1..Len(out.reg.items) :
                          /\ out.reg.items[k].name = out.regs[i]
                          /\ out.reg.items[k].size = out.rb.regs[i].size
        /\ ~out.rb.ok => out.rb = NoBinding

\* a binding of y and x, in this order and of different sizes, has been made
C17_Witness ==
    /\ out.fn = "exactly"
    /\ out.rb.ok
    /\ out.regs = <<"y", "x">>
    /\ out.rb.regs[1].size # out.rb.regs[2].size

\* a request with a name that is no register has returned nothing
C17_WitnessFail == out.fn = "exactly" /\ ~out.rb.ok /\ ~HostKnown /\ out.regs = <<"x", "w">>

\* the number of entries of the derived binding that have the name
BoundTimes(name) == Cardinality({k \in 1..Len(out.regs) : out.regs[k].name = name})

\* item k of the profile is a flag and no flag before it, in the order of the
\* profile, has its class and offset
FirstFlag(k) ==
    /\ reg.items[k].size = 1
    /\ \A j \in 1..(k - 1) :
          ~(reg.items[j].size = 1 /\ reg.items[j].type = reg.items[k].type
                /\ reg.items[j].offset = reg.items[k].offset)

\* C18: the derived binding names a 1-bit register once if it is the first
\* 1-bit register of its class at its offset and not at all otherwise,
\* whatever larger registers cover the bit, and its entry has size 1.
C18_FlagBinding ==
    out.fn = "derive" =>
        \A k \in 1..Len(reg.items) :
            reg.items[k].size = 1 =>
                /\ BoundTimes(reg.items[k].name) = (IF FirstFlag(k) THEN 1 ELSE 0)
                /\ \A e \in 1..Len(out.regs) :
                      out.regs[e].name = reg.items[k].name => out.regs[e].size = 1

\* two flags share an offset of a class that a larger register covers: the
\* first one is bound, the second one and the larger register are not
C18_Witness ==
    /\ out.fn = "derive"
    /\ \E k \in 1..Len(reg.items), j \in 1..Len(reg.items), c \in 1..Len(reg.items) :
          /\ j < k
          /\ FirstFlag(j) /\ reg.items[k].size = 1 /\ ~FirstFlag(k)
          /\ reg.items[j].type = reg.items[k].type /\ reg.items[j].offset = reg.items[k].offset
          /\ reg.items[c].size > 1
          /\ ItemBits(reg.items[j]) \subseteq ItemBits(reg.items[c])
          /\ BoundTimes(reg.items[j].name) = 1
          /\ BoundTimes(reg.items[k].name) = 0
          /\ BoundTimes(reg.items[c].name) = 0

(***************************************************************************)
(* SpecMac: MAC.L @Rm+,@Rn+ is lifted and run on a VM whose memory holds   *)
(* the two long words inp.a and inp.b at the addresses in Rm and Rn.       *)
(***************************************************************************)
\* 3, -2, 0x7fffffff and 0
MacVals == {<<0, 3>>, <<65535, 65534>>, <<32767, 65535>>, <<0, 0>>}
\* MACH: 0 and 0x00007fff; MACL: 5 and 0xffffffff
MacHighs == {<<0, 0>>, <<0, 32767>>}
MacLows == {<<0, 5>>, <<65535, 65535>>}
\* the registers m and n, and the addresses they hold
MacRegs == {<<SH_REG_IND_R0 + 1, SH_BANKED_REG_COUNT + 1>>, <<SH_BANKED_REG_COUNT + 1, SH_REG_IND_R0 + 2>>}
MacAddrM == <<0, 16>>
MacAddrN == <<0, 32>>

MacOp(i) ==
    [mnemonic |-> "SH_OP_MAC", scaling |-> "SH_SCALING_L",
     param |-> <<[mode |-> "SH_REG_INDIRECT_I", param |-> <<i.r[1], 0>>],
                 [mode |-> "SH_REG_INDIRECT_I", param |-> <<i.r[2], 0>>]>>]

MacVM(i) ==
    WithMem([VM0 EXCEPT !.g = [VM0.g EXCEPT ![SH_SR_S] = Bool(i.s),
                                            ![sh_registers[i.r[1] + 1]] = Bv(BvOfHalves(MacAddrM)),
                                            ![sh_registers[i.r[2] + 1]] = Bv(BvOfHalves(MacAddrN)),
                                            !["mach"] = Bv(BvOfHalves(i.mach)),
                                            !["macl"] = Bv(BvOfHalves(i.macl))]],
            MemStoreFrom(MemStoreFrom(<<>>, BvOfHalves(MacAddrM), BvOfHalves(i.a), 0, i.big_endian),
                         BvOfHalves(MacAddrN), BvOfHalves(i.b), 0, i.big_endian),
            i.big_endian)

InitMac ==
    /\ inp \in [a : MacVals, b : MacVals, mach : MacHighs, macl : MacLows, r : MacRegs,
                s : BOOLEAN, big_endian : BOOLEAN]
    /\ vm = MacVM(inp)
    /\ reg = Reg0
    /\ out = NoOut
    /\ step = 0

LiftMac ==
    /\ step = 0
    /\ out' = [fn |-> "lift", il_op |-> rz_sh_il_opcode(MacOp(inp), <<0, 0>>, vm).il_op]
    /\ step' = 1
    /\ UNCHANGED <<vm, reg, inp>>

RunMac ==
    /\ step = 1
    /\ vm' = ExecEffect(out.il_op, vm)
    /\ step' = 2
    /\ UNCHANGED <<reg, inp, out>>

NextMac == LiftMac \/ RunMac

SpecMac == InitMac /\ [][NextMac]_vars

\* a long word as a signed number of 64 bits
MacWide(h) == BvCast(2 * SH_REG_SIZE, BvMsb(BvOfHalves(h)), BvOfHalves(h))
\* MACH:MACL before the instruction, and with the product added, modulo 2^64
MacOld == BvOfHalves(inp.macl) \o BvOfHalves(inp.mach)
MacSum == BvAdd(MacOld, BvMul(MacWide(inp.a), MacWide(inp.b)))
\* the low 48 bits of the sum as a signed number of 64 bits
MacClipped == BvCast(2 * SH_REG_SIZE, MacSum[48], SubSeq(MacSum, 1, 48))

\* C19: after MAC.L, MACH:MACL is the old MACH:MACL plus the product of the
\* two sign-extended long words, modulo 2^64, when S is 0, and the low 48
\* bits of that sum sign-extended when S is 1.
C19_MacAccumulate ==
    step = 2 =>
        vm.g["macl"].b \o vm.g["mach"].b = (IF inp.s THEN MacClipped ELSE MacSum)

\* what the effect does: it stops at its branch, with MACH, MACL, Rm and Rn
\* as they were and only the local mac set
C19_MacStops ==
    step = 2 =>
        /\ ~vm.ok
        /\ vm.g = MacVM(inp).g
        /\ vm.mem = MacVM(inp).mem
        /\ vm.l["mac"] = Bv(MacOld)

(***************************************************************************)
(* SpecAdd: ADD Rm,Rn is lifted and run on a VM whose registers m and n    *)
(* hold inp.vm and inp.vn (inp.vn when m = n), in either register bank.    *)
(***************************************************************************)
\* 5, 7, 0xffffffff and 0x80000000
AddVals == {<<0, 5>>, <<0, 7>>, <<65535, 65535>>, <<32768, 0>>}

AddOp(i) ==
    [mnemonic |-> "SH_OP_ADD", scaling |-> "SH_SCALING_INVALID",
     param |-> <<RegDirect(i.m), RegDirect(i.n)>>]

AddVM(i) ==
    LET g0 == MovBank(VM0.g, i.bank)
        st0 == [VM0 EXCEPT !.g = g0]
        g1 == [g0 EXCEPT ![GprVar(i.m, st0)] = Bv(BvOfHalves(i.vm))]
    IN  [VM0 EXCEPT !.g = [g1 EXCEPT ![GprVar(i.n, st0)] = Bv(BvOfHalves(i.vn))]]

InitAdd ==
    /\ inp \in [m : MovRegs, n : MovRegs, vm : AddVals, vn : AddVals, bank : BOOLEAN]
    /\ vm = AddVM(inp)
    /\ reg = Reg0
    /\ out = NoOut
    /\ step = 0

LiftAdd ==
    /\ step = 0
    /\ out' = [fn |-> "lift", il_op |-> rz_sh_il_opcode(AddOp(inp), <<0, 0>>, vm).il_op]
    /\ step' = 1
    /\ UNCHANGED <<vm, reg, inp>>

RunAdd ==
    /\ step = 1
    /\ vm' = ExecEffect(out.il_op, vm)
    /\ step' = 2
    /\ UNCHANGED <<reg, inp, out>>

NextAdd == LiftAdd \/ RunAdd

SpecAdd == InitAdd /\ [][NextAdd]_vars

\* the value of Rm before the instruction
AddSrc == IF inp.m = inp.n THEN inp.vn ELSE inp.vm

\* C20: after ADD Rm,Rn the register Rn holds (Rn + Rm) mod 2^32 and every
\* other register and flag holds what it held before.
C20_Add ==
    step = 2 =>
        /\ vm.ok
        /\ Gpr(inp.n, vm) = BvOfHalves(AddHalves(inp.vn, AddSrc))
        /\ \A name \in DOMAIN vm.g :
              name # GprVar(inp.n, vm) => vm.g[name] = AddVM(inp).g[name]
        /\ vm.pc = AddVM(inp).pc

\* the source held 5 and the destination 7: the destination holds 12
C20_Witness ==
    /\ step = 2
    /\ inp.m # inp.n
    /\ inp.vm = <<0, 5>>
    /\ inp.vn = <<0, 7>>
    /\ Gpr(inp.n, vm) = BvOfNat(SH_REG_SIZE, 12)
    /\ Gpr(inp.m, vm) = BvOfNat(SH_REG_SIZE, 5)

(***************************************************************************)
(* SpecAlu: one of CMP/EQ (register and immediate form), SUB, SUBC, SUBV,  *)
(* ADDC, DT and SWAP.B is lifted and run on a VM whose registers m and n   *)
(* hold inp.vm and inp.vn (inp.vn when m = n) and whose flag T is inp.t.   *)
(* The immediate form compares the low half of inp.vm with R0.             *)
(***************************************************************************)
AluKinds ==
    <<[mnemonic |-> "SH_OP_CMP_EQ", scaling |-> "SH_SCALING_INVALID", form |-> "reg"],
      [mnemonic |-> "SH_OP_CMP_EQ", scaling |-> "SH_SCALING_INVALID", form |-> "imm"],
      [mnemonic |-> "SH_OP_SUB", scaling |-> "SH_SCALING_INVALID", form |-> "reg"],
      [mnemonic |-> "SH_OP_SUBC", scaling |-> "SH_SCALING_INVALID", form |-> "reg"],
      [mnemonic |-> "SH_OP_SUBV", scaling |-> "SH_SCALING_INVALID", form |-> "reg"],
      [mnemonic |-> "SH_OP_ADDC", scaling |-> "SH_SCALING_INVALID", form |-> "reg"],
      [mnemonic |-> "SH_OP_DT", scaling |-> "SH_SCALING_INVALID", form |-> "one"],
      [mnemonic |-> "SH_OP_SWAP", scaling |-> "SH_SCALING_B", form |-> "reg"]>>

\* a banked and an unbanked register
AluRegs == {SH_REG_IND_R0 + 1, SH_BANKED_REG_COUNT + 1}
\* 0, 1, 5, 0xffffffff, 0x80000000 and 0x12345678
AluVals == {<<0, 0>>, <<0, 1>>, <<0, 5>>, <<65535, 65535>>, <<32768, 0>>, <<4660, 22136>>}

AluKind == AluKinds[inp.k]
AluMn == AluKind.mnemonic
\* the destination register: R0 in the immediate form
AluN(i) == IF AluKinds[i.k].form = "imm" THEN SH_REG_IND_R0 ELSE i.n

AluOp(i) ==
    [mnemonic |-> AluKinds[i.k].mnemonic, scaling |-> AluKinds[i.k].scaling,
     param |-> CASE AluKinds[i.k].form = "reg" -> <<RegDirect(i.m), RegDirect(i.n)>>
                 [] AluKinds[i.k].form = "imm" ->
                        <<[mode |-> "SH_IMM_S", param |-> <<i.vm[2], 0>>], RegDirect(SH_REG_IND_R0)>>
                 [] OTHER -> <<RegDirect(i.n)>>]

AluVM(i) ==
    LET v == AddVM([m |-> i.m, n |-> AluN(i), vm |-> i.vm, vn |-> i.vn, bank |-> i.bank])
    IN  [v EXCEPT !.g[SH_SR_T] = Bool(i.t)]

InitAlu ==
    /\ inp \in [k : DOMAIN AluKinds, m : AluRegs, n : AluRegs, vm : AluVals, vn : AluVals,
                t : BOOLEAN, bank : BOOLEAN]
    /\ vm = AluVM(inp)
    /\ reg = Reg0
    /\ out = NoOut
    /\ step = 0

LiftAlu ==
    /\ step = 0
    /\ out' = [fn |-> "lift", il_op |-> rz_sh_il_opcode(AluOp(inp), <<0, 0>>, vm).il_op]
    /\ step' = 1
    /\ UNCHANGED <<vm, reg, inp>>

RunAlu ==
    /\ step = 1
    /\ vm' = ExecEffect(out.il_op, vm)
    /\ step' = 2
    /\ UNCHANGED <<reg, inp, out>>

NextAlu == LiftAlu \/ RunAlu

SpecAlu == InitAlu /\ [][NextAlu]_vars

\* the values of the two operands before the instruction, as halves
AluSrc ==
    CASE AluKind.form = "imm" -> <<0, inp.vm[2]>>
      [] inp.m = inp.n -> inp.vn
      [] OTHER -> inp.vm
AluDst == inp.vn
AluT == IF inp.t THEN <<0, 1>> ELSE <<0, 0>>
\* every global but the named ones, and the program counter, are as before
AluFrame(names) ==
    /\ \A name \in DOMAIN vm.g : name \notin names => vm.g[name] = AluVM(inp).g[name]
    /\ vm.pc = AluVM(inp).pc

\* C21: after CMP/EQ the flag T is true when the two operand values are equal
\* and false when they differ, and nothing else has changed.
C21_CmpEq ==
    (step = 2 /\ AluMn = "SH_OP_CMP_EQ") =>
        /\ vm.ok
        /\ vm.g[SH_SR_T] = Bool(AluSrc = AluDst)
        /\ AluFrame({SH_SR_T})

\* equal operands with T clear before: T is set
C21_Witness ==
    /\ step = 2
    /\ AluMn = "SH_OP_CMP_EQ"
    /\ inp.m # inp.n
    /\ inp.vm = <<4660, 22136>>
    /\ inp.vn = <<4660, 22136>>
    /\ ~inp.t
    /\ vm.g[SH_SR_T] = Bool(TRUE)

\* operands that differ in the upper half only, with T set before: T is clear
C21_WitnessDiffer ==
    /\ step = 2
    /\ AluMn = "SH_OP_CMP_EQ"
    /\ inp.vm = <<0, 0>>
    /\ inp.vn = <<32768, 0>>
    /\ inp.t
    /\ vm.g[SH_SR_T] = Bool(FALSE)

AluSubs == {"SH_OP_SUB", "SH_OP_SUBC", "SH_OP_SUBV"}
\* the borrow taken by SUBC only
AluBorrow == IF AluMn = "SH_OP_SUBC" THEN AluT ELSE <<0, 0>>

\* C24: after SUB, SUBC and SUBV with operands Rm, Rn the register Rn holds
\* (Rn - Rm) mod 2^32, less T for SUBC.
C24_SubDirection ==
    (step = 2 /\ AluMn \in AluSubs) =>
        Gpr(inp.n, vm) = BvOfHalves(SubHalves(SubHalves(AluDst, AluSrc), AluBorrow))

\* What the effects write: SUB and SUBV leave (Rm - Rn) mod 2^32 in Rn, and
\* SUBC leaves (Rm + Rn - T) mod 2^32.
C24_SubReversed ==
    (step = 2 /\ AluMn \in AluSubs) =>
        Gpr(inp.n, vm) =
            BvOfHalves(IF AluMn = "SH_OP_SUBC"
                       THEN SubHalves(AddHalves(AluSrc, AluDst), AluT)
                       ELSE SubHalves(AluSrc, AluDst))

\* x + y + t > 2^32 - 1 for halves x, y and t
SumCarries3(x, y, t) == x[1] + y[1] + ((x[2] + y[2] + t[2]) \div 65536) >= 65536
AluAddcSum == AddHalves(AddHalves(AluDst, AluSrc), AluT)

\* C25: after ADDC Rm,Rn the register Rn holds (Rn + Rm + T) mod 2^32 and T is
\* the carry out of that addition, all three taken before the instruction.
C25_AddcCarry ==
    (step = 2 /\ AluMn = "SH_OP_ADDC") =>
        /\ Gpr(inp.n, vm) = BvOfHalves(AluAddcSum)
        /\ vm.g[SH_SR_T] = Bool(SumCarries3(AluDst, AluSrc, AluT))

\* What the effect does: the sum is as claimed, every global but Rn and T is
\* kept, and T is computed after Rn has been written, from the top bits of
\* Rm, of the new Rn and of the sum Rm + new Rn + T.
C25_AddcLate ==
    (step = 2 /\ AluMn = "SH_OP_ADDC") =>
        LET rn == AluAddcSum
            rm == IF inp.m = inp.n THEN rn ELSE AluSrc
            x == rm[1] >= 32768
            y == rn[1] >= 32768
            r == AddHalves(AddHalves(rm, rn), AluT)[1] >= 32768
        IN  /\ vm.ok
            /\ Gpr(inp.n, vm) = BvOfHalves(rn)
            /\ vm.g[SH_SR_T] = Bool((x /\ y) \/ (~r /\ y) \/ (x /\ ~r))
            /\ AluFrame({SH_SR_T, GprVar(inp.n, vm)})

AluDec == SubHalves(AluDst, <<0, 1>>)

\* C26: after DT Rn the register Rn holds (Rn - 1) mod 2^32 and T is true when
\* the decremented Rn is 0 and false otherwise.
C26_DtZero ==
    (step = 2 /\ AluMn = "SH_OP_DT") =>
        /\ Gpr(inp.n, vm) = BvOfHalves(AluDec)
        /\ vm.g[SH_SR_T] = Bool(AluDec = <<0, 0>>)

\* What the effect does: Rn is decremented, every global but Rn and T is
\* kept, and T is true when the decremented Rn is not 0.
C26_DtInverted ==
    (step = 2 /\ AluMn = "SH_OP_DT") =>
        /\ vm.ok
        /\ Gpr(inp.n, vm) = BvOfHalves(AluDec)
        /\ vm.g[SH_SR_T] = Bool(AluDec # <<0, 0>>)
        /\ AluFrame({SH_SR_T, GprVar(inp.n, vm)})

\* a 32-bit value with its two lowest bytes exchanged
SwapBytes(h) == <<h[1], (h[2] % 256) * 256 + (h[2] \div 256)>>

\* C27: after SWAP.B Rm,Rn the register Rn holds Rm with its two lowest bytes
\* exchanged and its upper 16 bits preserved.
C27_SwapBytes ==
    (step = 2 /\ AluMn = "SH_OP_SWAP") =>
        /\ vm.ok
        /\ Gpr(inp.n, vm) = BvOfHalves(SwapBytes(AluSrc))

\* What the effect does: its evaluation fails and no global is written.
C27_SwapStops ==
    (step = 2 /\ AluMn = "SH_OP_SWAP") =>
        /\ ~vm.ok
        /\ AluFrame({})

(***************************************************************************)
(* SpecJump: BF, BRA, BSR, BSRF or JSR at the address inp.pc is lifted and  *)
(* run on a VM whose program counter is inp.pc, whose flag T is inp.t and   *)
(* whose register R9 holds inp.rn; after a call form, RTS is lifted at the  *)
(* address the call jumped to and run.                                      *)
(***************************************************************************)
\* the 12-bit displacements around 0, 2^10, 2^11 and 2^11 + 2^10
JumpDisp12 == {0, 1, 255, 1023, 1024, 2047, 2048, 3071, 3072, 4095}
\* 0, 0x1000 and 0xfffffffc (the target wraps)
JumpPCs == {<<0, 0>>, <<0, 4096>>, <<65535, 65532>>}
\* 0x20, 0x80000000 and 0xfffffff0 in R9
JumpVals == {<<0, 32>>, <<32768, 0>>, <<65535, 65520>>}
JumpReg == SH_BANKED_REG_COUNT + 1

JumpModes ==
    [SH_OP_BF |-> "SH_PC_RELATIVE8", SH_OP_BRA |-> "SH_PC_RELATIVE12",
     SH_OP_BSR |-> "SH_PC_RELATIVE12", SH_OP_BSRF |-> "SH_PC_RELATIVE_REG",
     SH_OP_JSR |-> "SH_REG_INDIRECT"]
JumpCalls == {"SH_OP_BSR", "SH_OP_BSRF", "SH_OP_JSR"}

JumpParam(i) ==
    [mode |-> JumpModes[i.mn],
     param |-> <<IF i.mn \in {"SH_OP_BSRF", "SH_OP_JSR"} THEN JumpReg ELSE i.d, 0>>]

JumpOp(i) == [mnemonic |-> i.mn, scaling |-> "SH_SCALING_INVALID", param |-> <<JumpParam(i)>>]

JumpVM(i) ==
    [VM0 EXCEPT !.pc = BvOfHalves(i.pc),
                !.g[SH_SR_T] = Bool(i.t),
                !.g[sh_registers[JumpReg + 1]] = Bv(BvOfHalves(i.rn))]

InitJump ==
    /\ inp \in [mn : {"SH_OP_BF"}, d : 0..255, pc : JumpPCs, t : BOOLEAN, rn : {<<0, 32>>}]
          \cup [mn : {"SH_OP_BRA", "SH_OP_BSR"}, d : JumpDisp12, pc : JumpPCs, t : {FALSE}, rn : {<<0, 32>>}]
          \cup [mn : {"SH_OP_BSRF", "SH_OP_JSR"}, d : {0}, pc : JumpPCs, t : {FALSE}, rn : JumpVals]
    /\ vm = JumpVM(inp)
    /\ reg = Reg0
    /\ out = NoOut
    /\ step = 0

\* the lifted effect, and the value of the effective address in the VM
LiftJump ==
    /\ step = 0
    /\ out' = [fn |-> "lift",
               il_op |-> rz_sh_il_opcode(JumpOp(inp), inp.pc, vm).il_op,
               addr |-> EvalPure(sh_il_get_effective_addr_pc(JumpParam(inp), "SH_SCALING_INVALID", inp.pc), vm)]
    /\ step' = 1
    /\ UNCHANGED <<vm, reg, inp>>

RunJump ==
    /\ step = 1
    /\ vm' = ExecEffect(out.il_op, vm)
    /\ step' = 2
    /\ UNCHANGED <<reg, inp, out>>

LiftRts ==
    /\ step = 2
    /\ inp.mn \in JumpCalls
    /\ out' = [out EXCEPT !.fn = "rts",
                          !.il_op = rz_sh_il_opcode([mnemonic |-> "SH_OP_RTS", scaling |-> "SH_SCALING_INVALID",
                                                     param |-> <<>>], BvHalves(vm.pc), vm).il_op]
    /\ step' = 3
    /\ UNCHANGED <<vm, reg, inp>>

RunRts ==
    /\ step = 3
    /\ vm' = ExecEffect(out.il_op, vm)
    /\ step' = 4
    /\ UNCHANGED <<reg, inp, out>>

NextJump == LiftJump \/ RunJump \/ LiftRts \/ RunRts

SpecJump == InitJump /\ [][NextJump]_vars

\* the address after the instruction's delay slot: (pc + 4) mod 2^32
JumpNext == AddHalves(inp.pc, <<0, 4>>)

\* C22: each of BSR, BSRF and JSR at the address pc sets PR to (pc + 4) mod 2^32
\* before it jumps, and a following RTS transfers control to pc + 4.
C22_ReturnAddress ==
    /\ (step \in {2, 3} /\ inp.mn \in JumpCalls) => vm.g["pr"].b = BvOfHalves(JumpNext)
    /\ step = 4 => vm.pc = BvOfHalves(JumpNext)

\* What the effects do: JSR saves pc + 4; BSR and BSRF save pc, the address
\* of the call itself; RTS jumps to the saved address.
C22_CallSaves ==
    LET saved == IF inp.mn = "SH_OP_JSR" THEN JumpNext ELSE inp.pc
    IN  /\ (step \in {2, 3} /\ inp.mn \in JumpCalls) => (vm.ok /\ vm.g["pr"].b = BvOfHalves(saved))
        /\ step = 4 => (vm.ok /\ vm.pc = BvOfHalves(saved))

\* pc + 4 + 2 * sext(d) mod 2^32 for a displacement d of w bits
JumpTarget(w, d) ==
    IF d >= Pow2(w - 1)
    THEN SubHalves(JumpNext, <<0, 2 * (Pow2(w) - d)>>)
    ELSE AddHalves(JumpNext, <<0, 2 * d>>)
JumpWidth == IF JumpModes[inp.mn] = "SH_PC_RELATIVE8" THEN 8 ELSE 12
JumpRelative == JumpModes[inp.mn] \in {"SH_PC_RELATIVE8", "SH_PC_RELATIVE12"}

\* C23: the effective address of the modes PC-relative 8 and PC-relative 12
\* is (pc + 4 + 2 * sext(d)) mod 2^32, with d read as a signed number of 8,
\* respectively 12, bits.
C23_RelativeTarget ==
    (step >= 1 /\ JumpRelative) => out.addr = Bv(BvOfHalves(JumpTarget(JumpWidth, inp.d)))

\* What the resolver computes: the displacement is doubled within its 8,
\* respectively 12, bits and only then sign-extended, so the target is
\* pc + 4 + sext(2 * d mod 2^w).
C23_RelativeWraps ==
    (step >= 1 /\ JumpRelative) =>
        LET w == JumpWidth
            e == (2 * inp.d) % Pow2(w)
        IN  out.addr = Bv(BvOfHalves(IF e >= Pow2(w - 1)
                                     THEN SubHalves(JumpNext, <<0, Pow2(w) - e>>)
                                     ELSE AddHalves(JumpNext, <<0, e>>)))

\* The address is the claimed one exactly for the displacements whose double
\* fits: -2^(w-2) <= sext(d) < 2^(w-2); a branch that is taken jumps to the
\* address the resolver computed.
C23_RelativeSmall ==
    /\ (step >= 1 /\ JumpRelative) =>
          ((out.addr = Bv(BvOfHalves(JumpTarget(JumpWidth, inp.d))))
             <=> (inp.d < Pow2(JumpWidth - 2) \/ inp.d >= Pow2(JumpWidth) - Pow2(JumpWidth - 2)))
    /\ (step = 2 /\ JumpRelative /\ ~inp.t) => (vm.ok /\ Bv(vm.pc) = out.addr)
    /\ (step = 2 /\ inp.t) => vm = JumpVM(inp)

(***************************************************************************)
(* SpecBank: the effect of sh_il_set_reg for a banked register n and the    *)
(* value inp.val is built and run on a VM in which every register of both   *)
(* banks holds a value of its own, and the register is then read back with  *)
(* sh_il_get_reg.                                                           *)
(***************************************************************************)
\* 0, 7, 0x80000001 and 0xffffffff
BankVals == {<<0, 0>>, <<0, 7>>, <<32768, 1>>, <<65535, 65535>>}

\* r0..r7 hold 0x11..0x18 and r0b..r7b hold 0x21..0x28
BankVM(i) ==
    [VM0 EXCEPT !.g = [name \in DOMAIN VM0.g |->
        IF \E k \in 0..(SH_BANKED_REG_COUNT - 1) : name = sh_get_banked_reg(k, 0)
        THEN Bv(BvOfNat(SH_REG_SIZE, 17 + CHOOSE k \in 0..(SH_BANKED_REG_COUNT - 1) : name = sh_get_banked_reg(k, 0)))
        ELSE IF \E k \in 0..(SH_BANKED_REG_COUNT - 1) : name = sh_get_banked_reg(k, 1)
        THEN Bv(BvOfNat(SH_REG_SIZE, 33 + CHOOSE k \in 0..(SH_BANKED_REG_COUNT - 1) : name = sh_get_banked_reg(k, 1)))
        ELSE IF name = SH_SR_D THEN Bool(i.md)
        ELSE IF name = SH_SR_R THEN Bool(i.rb)
        ELSE VM0.g[name]]]

InitBank ==
    /\ inp \in [n : 0..(SH_BANKED_REG_COUNT - 1), val : BankVals, md : BOOLEAN, rb : BOOLEAN]
    /\ vm = BankVM(inp)
    /\ reg = Reg0
    /\ out = NoOut
    /\ step = 0

BuildSetReg ==
    /\ step = 0
    /\ out' = [fn |-> "set_reg", il_op |-> sh_il_set_reg(inp.n, Const32(inp.val))]
    /\ step' = 1
    /\ UNCHANGED <<vm, reg, inp>>

RunSetReg ==
    /\ step = 1
    /\ vm' = ExecEffect(out.il_op, vm)
    /\ step' = 2
    /\ UNCHANGED <<reg, inp, out>>

ReadReg ==
    /\ step = 2
    /\ out' = [fn |-> "get_reg", il_op |-> out.il_op, read |-> EvalPure(sh_il_get_reg(inp.n), vm)]
    /\ step' = 3
    /\ UNCHANGED <<vm, reg, inp>>

NextBank == BuildSetReg \/ RunSetReg \/ ReadReg

SpecBank == InitBank /\ [][NextBank]_vars

\* the names of the two banks' registers, written out
BankNames0 == <<"r0", "r1", "r2", "r3", "r4", "r5", "r6", "r7">>
BankNames1 == <<"r0b", "r1b", "r2b", "r3b", "r4b", "r5b", "r6b", "r7b">>
BankTarget == IF inp.md /\ inp.rb THEN BankNames1[inp.n + 1] ELSE BankNames0[inp.n + 1]

\* C28: the effect of sh_il_set_reg for a banked register n writes r{n}b when
\* SR.MD and SR.RB are both set and r{n} otherwise, leaves every other global
\* unchanged, and sh_il_get_reg under the same SR.MD and SR.RB then yields the
\* value written.
C28_BankFrame ==
    /\ step >= 2 =>
          /\ vm.ok
          /\ vm.g[BankTarget] = Bv(BvOfHalves(inp.val))
          /\ \A name \in DOMAIN vm.g : name # BankTarget => vm.g[name] = BankVM(inp).g[name]
          /\ vm.pc = BankVM(inp).pc
    /\ step = 3 => out.read = Bv(BvOfHalves(inp.val))

\* in privileged mode with the bank bit set, 0x80000001 written to register 3
\* is in r3b and read back, and r3 still holds 0x14
C28_Witness ==
    /\ step = 3
    /\ inp.n = 3 /\ inp.md /\ inp.rb /\ inp.val = <<32768, 1>>
    /\ vm.g["r3b"] = Bv(BvOfHalves(<<32768, 1>>))
    /\ vm.g["r3"] = Bv(BvOfNat(SH_REG_SIZE, 20))
    /\ out.read = vm.g["r3b"]

\* with SR.MD set and SR.RB clear the write goes to r3 and r3b keeps 0x24
C28_WitnessUser ==
    /\ step = 3
    /\ inp.n = 3 /\ inp.md /\ ~inp.rb /\ inp.val = <<0, 7>>
    /\ vm.g["r3"] = Bv(BvOfNat(SH_REG_SIZE, 7))
    /\ vm.g["r3b"] = Bv(BvOfNat(SH_REG_SIZE, 36))
    /\ out.read = vm.g["r3"]

(***************************************************************************)
(* SpecTrip: a VM is bound to the binding derived from a profile, its      *)
(* bound variables and its program counter are given values of the bound   *)
(* widths, and the VM is pushed to the register file and pulled back.      *)
(* The profile has the registers a and b anywhere in class 0 and c in      *)
(* class 1; its program counter is a, c or none.  The VM's program counter *)
(* is as wide as the profile's.                                            *)
(***************************************************************************)
TripNames == <<"a", "b", "c">>
TripItems(name) ==
    {[name |-> name, type |-> RegClasses[1], offset |-> o, size |-> sz] :
        o \in 0..MaxOff, sz \in 1..MaxSize}
TripC == [name |-> "c", type |-> RegClasses[2], offset |-> 0, size |-> 2]
TripProfiles ==
    {[items |-> <<a, b, TripC>>, pc |-> pc, arena |-> ArenaZero] :
        a \in TripItems("a"), b \in TripItems("b"), pc \in {"", "a", "c"}}

\* the values given to a vector of w bits: 0, 1 and 2^w - 1
TripVals(w) == {BvOfNat(w, 0), BvOfNat(w, 1), BvOfNat(w, Pow2(w) - 1)}
TripPCItem == rz_reg_get(reg, rz_reg_get_name_pc(reg))
TripPCWidth == IF TripPCItem = NoItem THEN 2 ELSE TripPCItem.size

InitTrip ==
    /\ reg \in TripProfiles
    /\ vm = [g |-> [n \in {TripNames[k] : k \in DOMAIN TripNames} |-> NoVal], l |-> <<>>,
             pc |-> BvZero(TripPCWidth), ok |-> TRUE,
             events |-> <<>>, reg_binding |-> <<>>, bound |-> FALSE]
    /\ inp = 0
    /\ out = NoOut
    /\ step = 0

\* rz_il_reg_binding_derive, then rz_il_vm_setup_reg_binding
TripSetup ==
    /\ step = 0
    /\ \E rev \in SortOrders(reg) :
          vm' = rz_il_vm_setup_reg_binding(vm, rz_il_reg_binding_derive(reg, rev))
    /\ out' = [fn |-> "setup"]
    /\ step' = 1
    /\ UNCHANGED <<reg, inp>>

\* the VM runs: every bound variable and the program counter get a value
TripRun ==
    /\ step = 1
    /\ \E pc \in TripVals(Len(vm.pc)),
          val \in [{vm.reg_binding[i].name : i \in 1..Len(vm.reg_binding)} -> UNION {TripVals(w) : w \in 1..MaxSize}] :
          /\ \A i \in 1..Len(vm.reg_binding) :
                Len(val[vm.reg_binding[i].name]) = vm.reg_binding[i].size
          /\ vm' = [vm EXCEPT !.pc = pc,
                              !.g = [n \in DOMAIN vm.g |->
                                        IF n \in DOMAIN val THEN Bv(val[n]) ELSE vm.g[n]]]
    /\ out' = [fn |-> "run"]
    /\ step' = 2
    /\ UNCHANGED <<reg, inp>>

TripToReg ==
    /\ step = 2
    /\ LET res == rz_il_vm_sync_to_reg(vm, reg) IN
          /\ reg' = [reg EXCEPT !.arena = res.arena]
          /\ out' = [fn |-> "sync_to_reg", ret |-> res.perfect, vm |-> vm]
    /\ step' = 3
    /\ UNCHANGED <<vm, inp>>

TripFromReg ==
    /\ step = 3
    /\ vm' = rz_il_vm_sync_from_reg(vm, reg)
    /\ out' = [out EXCEPT !.fn = "sync_from_reg"]
    /\ step' = 4
    /\ UNCHANGED <<reg, inp>>

NextTrip == TripSetup \/ TripRun \/ TripToReg \/ TripFromReg

SpecTrip == InitTrip /\ [][NextTrip]_vars

TripBound == {vm.reg_binding[i].name : i \in 1..Len(vm.reg_binding)}
\* the bits of the bound registers
TripBoundBits == UNION {ItemBits(rz_reg_get(reg, n)) : n \in TripBound}

\* C29: with a binding derived from the profile and bound variables and a
\* program counter of the bound widths, the push returns true, and after the
\* pull every bound variable and the program counter hold what they held
\* before the push.
C29_RoundTrip ==
    (step >= 3 /\ TripPCItem # NoItem) =>
        /\ out.ret
        /\ step = 4 =>
              /\ \A n \in TripBound : vm.g[n] = out.vm.g[n]
              /\ vm.pc = out.vm.pc

\* What the two functions do: the bound variables come back unchanged for
\* every profile, the push returns true exactly when the profile has a
\* program counter, and the program counter comes back unchanged when its
\* register shares no bit with a bound register.
C29_RoundTripApart ==
    /\ step >= 3 => (out.ret <=> TripPCItem # NoItem)
    /\ step = 4 =>
          /\ \A n \in TripBound : vm.g[n] = out.vm.g[n]
          /\ (TripPCItem = NoItem \/ ItemBits(TripPCItem) \cap TripBoundBits = {}) => vm.pc = out.vm.pc

(***************************************************************************)
(* SpecLate: LDC, STC or RTE is lifted while SR.MD is 1, the VM then runs  *)
(* and may clear SR.MD, and the lifted effect is evaluated.  The general   *)
(* register of the instruction holds inp.val (its copy in bank 1 holds     *)
(* inp.val + 0x10000) and the control and bank registers hold inp.ctl.     *)
(***************************************************************************)
\* GBR, VBR and the bank registers R0_BANK and R7_BANK
LateRegs == {SH_REG_IND_GBR, SH_REG_IND_VBR, SH_REG_IND_R0, SH_BANKED_REG_COUNT - 1}
LateOps ==
    {[mnemonic |-> "SH_OP_LDC", param |-> <<RegDirect(m), RegDirect(c)>>, scaling |-> "SH_SCALING_INVALID"] :
        m \in PrivGprs, c \in LateRegs}
    \cup {[mnemonic |-> "SH_OP_STC", param |-> <<RegDirect(c), RegDirect(n)>>, scaling |-> "SH_SCALING_INVALID"] :
        n \in PrivGprs, c \in LateRegs}
    \cup {[mnemonic |-> "SH_OP_RTE", param |-> <<NoParam, NoParam>>, scaling |-> "SH_SCALING_INVALID"]}
\* 5, 0x80000000 and 0xfffffffe
LateVals == {<<0, 5>>, <<32768, 0>>, <<65535, 65534>>}
\* 0x00000100 and 0x40000001 (as a status word: MD and T)
LateCtls == {<<0, 256>>, <<16384, 1>>}

LateVM(i) ==
    [VM0 EXCEPT !.g = [name \in DOMAIN VM0.g |->
        IF name = SH_SR_D THEN Bool(TRUE)
        ELSE IF name = SH_SR_R THEN Bool(i.rb)
        ELSE IF name \in {"r1", "r9"} THEN Bv(BvOfHalves(i.val))
        ELSE IF name = "r1b" THEN Bv(BvOfHalves(AddHalves(i.val, <<1, 0>>)))
        ELSE IF name \in {"gbr", "vbr", "ssr", "r0b", "r7b"} THEN Bv(BvOfHalves(i.ctl))
        ELSE IF name = "spc" THEN Bv(BvOfHalves(AddHalves(i.ctl, <<0, 64>>)))
        ELSE VM0.g[name]]]

InitLate ==
    /\ inp \in [op : LateOps, val : LateVals, ctl : LateCtls, rb : BOOLEAN]
    /\ vm = LateVM(inp)
    /\ reg = Reg0
    /\ out = NoOut
    /\ step = 0

\* rz_sh_il_opcode on the VM of the analysis, in privileged mode
LateLift ==
    /\ step = 0
    /\ \E res \in {rz_sh_il_opcode(inp.op, <<0, 0>>, vm)} :
          /\ vm' = res.vm
          /\ out' = [fn |-> "lift", il_op |-> res.il_op, added |-> res.vm.events]
    /\ step' = 1
    /\ UNCHANGED <<reg, inp>>

\* the VM runs on and leaves SR.MD set or clears it
LateWrite ==
    /\ step = 1
    /\ \E md \in BOOLEAN : vm' = [vm EXCEPT !.g[SH_SR_D] = Bool(md)]
    /\ out' = [out EXCEPT !.fn = "write"]
    /\ step' = 2
    /\ UNCHANGED <<reg, inp>>

\* the effect lifted before is evaluated; out.vm is the VM it started from
LateRun ==
    /\ step = 2
    /\ vm' = ExecEffect(out.il_op, vm)
    /\ out' = [fn |-> "run", il_op |-> out.il_op, added |-> out.added, vm |-> vm]
    /\ step' = 3
    /\ UNCHANGED <<reg, inp>>

NextLate == LateLift \/ LateWrite \/ LateRun

SpecLate == InitLate /\ [][NextLate]_vars

\* the control or bank register of LDC and STC, and its variable
LateCtl == inp.op.param[IF inp.op.mnemonic = "SH_OP_LDC" THEN 2 ELSE 1].param[1]
LateCtlVar == IF sh_banked_reg(LateCtl) THEN sh_get_banked_reg(LateCtl, 1) ELSE sh_registers[LateCtl + 1]
LateGpr == inp.op.param[IF inp.op.mnemonic = "SH_OP_LDC" THEN 1 ELSE 2].param[1]

\* the register transfer of the instruction, from the VM out.vm to the VM vm
LateTransfer ==
    CASE inp.op.mnemonic = "SH_OP_LDC" -> vm.g[LateCtlVar].b = Gpr(LateGpr, out.vm)
      [] inp.op.mnemonic = "SH_OP_STC" -> Gpr(LateGpr, vm) = out.vm.g[LateCtlVar].b
      [] OTHER -> /\ vm.pc = out.vm.g["spc"].b
                  /\ vm.g[SH_SR_T] = Bool(out.vm.g["ssr"].b[1] = 1)
                  /\ vm.g[SH_SR_D] = Bool(out.vm.g["ssr"].b[31] = 1)

\* C30: an effect lifted for LDC, STC or RTE while SR.MD = 1 performs the
\* register transfer and raises no fault event in whatever state it is
\* evaluated later, SR.MD = 0 included.
C30_LateTransfer ==
    /\ step >= 1 => out.added = <<>>
    /\ step = 3 => (vm.ok /\ vm.events = <<>> /\ LateTransfer)

\* What the lift in privileged mode returns: no event in any case; for RTE
\* and for LDC and STC of a bank register an effect that performs the
\* transfer and raises no event whatever SR.MD is when it is evaluated; for
\* LDC and STC of GBR and VBR no effect at all.
C30_LateEffect ==
    /\ step >= 1 => out.added = <<>>
    /\ step >= 1 =>
          (IsNull(out.il_op) <=> (inp.op.mnemonic # "SH_OP_RTE" /\ ~sh_banked_reg(LateCtl)))
    /\ (step = 3 /\ ~IsNull(out.il_op)) => (vm.ok /\ vm.events = <<>> /\ LateTransfer)

====
